---- MODULE Spec2Model ----
(***************************************************************************)
(* The local browsing-data and omnibox-suggestion subsystem of schnopdih   *)
(* (src/main.py): the bookmark, history and session stores with their     *)
(* JSON files, the searches, the download tracker, and the debounced       *)
(* address-bar suggestion population.                                      *)
(*                                                                         *)
(* Strings are TLA+ strings, read as sequences of one-character strings    *)
(* (Len, SubSeq, \o, Head and Tail apply to them).  Time stamps are the    *)
(* values of a logical clock that advances on every _now_iso() call.       *)
(***************************************************************************)
EXTENDS Integers, Sequences, FiniteSets, TLC

VARIABLES
    bookmarks,       \* BookmarkManager.bookmarks: list of entries, newest first
    bookmarksFile,   \* the document at BOOKMARKS_FILE
    history,         \* HistoryManager.history: list of entries, newest first
    historyFile,     \* the document at HISTORY_FILE
    clock,           \* number of _now_iso() calls so far (the time stamp source)
    faults,          \* number of file writes that have failed so far
    pendingText,     \* SchnopdihWindow._pending_omnibox_text
    timerPending,    \* pending timeouts of SchnopdihWindow.omnibox_timer
    popup,           \* suggestion_list: [visible, items]
    lastCall,        \* observation: the last store call, its arguments and result
    burst,           \* observation: raw texts of the edits of the current burst
    popLog,          \* observation: the populations run since the burst began
    sessionFile,     \* the document at SESSION_FILE
    restored,        \* observation: what the last SessionManager.restore() returned
    active,          \* DownloadManager.active: list of download records
    junk,            \* what a store holds in place of its list of entries, if anything
    raised,          \* observation: the last call raised an exception to its caller
    blocklist,       \* SimpleRequestInterceptor.blocklist
    tabs,            \* the views of SchnopdihWindow.tabs: [url, private, cache]
    current,         \* SchnopdihWindow.tabs.currentIndex(), counted from 1
    cacheDirs,       \* the private cache directories that exist on disk
    closedTabs,      \* SchnopdihWindow.closed_tabs_stack
    phase            \* "starting" until _restore_session has run, "running", "closed"

storeVars == <<bookmarks, bookmarksFile, history, historyFile, clock, faults>>
omniVars  == <<pendingText, timerPending, popup>>
obsVars   == <<lastCall, burst, popLog>>
sessionVars  == <<sessionFile, restored>>
downloadVars == <<active>>
errVars      == <<junk, raised>>
windowVars   == <<blocklist, tabs, current, cacheDirs, closedTabs, phase>>
vars      == <<bookmarks, bookmarksFile, history, historyFile, clock, faults,
               pendingText, timerPending, popup, lastCall, burst, popLog,
               sessionFile, restored, active, junk, raised,
               blocklist, tabs, current, cacheDirs, closedTabs, phase>>

----------------------------------------------------------------------------
(* Bounds of the model                                                     *)

MaxClock == 3      \* stamping calls (add, update, History.add) in one run
MaxLimit == 2      \* largest search limit tried
MaxBurst == 3      \* edits in one burst
MaxFaults == 1     \* file writes that fail in one run
MaxEntries == 3    \* entries of a store file read at construction
MaxAdds == 5002    \* History.add calls in one run of SpecHistory

(* Inputs                                                                  *)

TITLES  == {"Apple"}
URLS    == {"", "a.com", "http://a.com", "http://b.org"}

----------------------------------------------------------------------------
(* Strings                                                                 *)

\* Python's  q in s  for strings: q is a contiguous part of s ("" is in every s).
Contains(s, q) ==
    \E i \in 1..(Len(s) - Len(q) + 1) : SubSeq(s, i, i + Len(q) - 1) = q

\* str.lower() on the ASCII capitals.
LOWER_OF ==
    ("A" :> "a") @@ ("B" :> "b") @@ ("C" :> "c") @@ ("D" :> "d") @@ ("E" :> "e") @@ ("F" :> "f")
    @@ ("G" :> "g") @@ ("H" :> "h") @@ ("I" :> "i") @@ ("J" :> "j") @@ ("K" :> "k") @@ ("L" :> "l")
    @@ ("M" :> "m") @@ ("N" :> "n") @@ ("O" :> "o") @@ ("P" :> "p") @@ ("Q" :> "q") @@ ("R" :> "r")
    @@ ("S" :> "s") @@ ("T" :> "t") @@ ("U" :> "u") @@ ("V" :> "v") @@ ("W" :> "w") @@ ("X" :> "x")
    @@ ("Y" :> "y") @@ ("Z" :> "z")

\* str.lower() on one character.
LowerChar(c) == IF c \in DOMAIN LOWER_OF THEN LOWER_OF[c] ELSE c

\* str.lower()
RECURSIVE Lower(_)
Lower(s) == IF s = "" THEN "" ELSE LowerChar(Head(s)) \o Lower(Tail(s))

\* str.lstrip() / str.strip(), the white space of the model being the blank.
RECURSIVE LStrip(_)
LStrip(s) == IF s # "" /\ Head(s) = " " THEN LStrip(Tail(s)) ELSE s

RECURSIVE RStrip(_)
RStrip(s) ==
    IF s # "" /\ SubSeq(s, Len(s), Len(s)) = " "
    THEN RStrip(SubSeq(s, 1, Len(s) - 1))
    ELSE s

Strip(s) == RStrip(LStrip(s))

\* str.isascii() and str.isalpha() on one character
IsAsciiAlpha(c) ==
    c \in DOMAIN LOWER_OF \/ c \in {LOWER_OF[x] : x \in DOMAIN LOWER_OF}

\* c in urllib.parse.scheme_chars
IsSchemeChar(c) ==
    \/ IsAsciiAlpha(c)
    \/ c \in {"0", "1", "2", "3", "4", "5", "6", "7", "8", "9"}
    \/ c \in {"+", "-", "."}

\* urlparse(url).scheme: the text before the first ':' when it starts with a
\* letter and holds scheme characters only, lower-cased; "" otherwise.
urlparse_scheme(url) ==
    LET u == LStrip(url)
        colons == {k \in 1..Len(u) : SubSeq(u, k, k) = ":"}
    IN  IF colons = {} THEN ""
        ELSE LET i == CHOOSE k \in colons : \A j \in colons : k <= j
             IN  IF /\ i > 1
                    /\ IsAsciiAlpha(SubSeq(u, 1, 1))
                    /\ \A j \in 1..(i - 1) : IsSchemeChar(SubSeq(u, j, j))
                 THEN Lower(SubSeq(u, 1, i - 1))
                 ELSE ""

----------------------------------------------------------------------------
(* Sequences                                                               *)

\* Mutant of Take: the slice keeps one entry more.
Take_one_more(xs, n) == SubSeq(xs, 1, IF n + 1 < Len(xs) THEN n + 1 ELSE Len(xs))

\* Python's  xs[:n]  for n >= 0
Take(xs, n) == SubSeq(xs, 1, IF n < Len(xs) THEN n ELSE Len(xs))

\* xs.insert(0, x)
Prepend(x, xs) == <<x>> \o xs

\* number of entries of a store list with the given url
CountUrl(xs, url) == Cardinality({i \in 1..Len(xs) : xs[i].url = url})

\* The lists of up to MaxEntries entries
DocsOf(entries) == UNION {[1..n -> entries] : n \in 0..MaxEntries}

----------------------------------------------------------------------------
(* Persistence helpers                                                     *)

\* A file is absent, unreadable (open("r") raises), partial (not parseable as
\* JSON), a JSON document of the shape its store writes (data holds it), or a
\* JSON document of another shape.
AbsentFile     == [kind |-> "absent", data |-> <<>>]
UnreadableFile == [kind |-> "unreadable", data |-> <<>>]
PartialFile    == [kind |-> "partial", data |-> <<>>]
JsonFile(data) == [kind |-> "json", data |-> data]
JsonValue(shape) == [kind |-> "json_value", data |-> <<>>, shape |-> shape]

\* The other shapes of a JSON document: null, false, 0, "", {} and [], which
\* Python takes as false, and true, 5, "abc", {"a": 1}, {"tabs": 5} and
\* [1, 2], which it takes as true.
FALSY_SHAPES  == {"null", "false", "zero", "empty_string", "empty_object",
                  "empty_list"}
TRUTHY_SHAPES == {"true", "number", "string", "object", "object_tabs_number",
                  "list_of_numbers"}
JSON_SHAPES   == FALSY_SHAPES \cup TRUTHY_SHAPES
Truthy(shape) == shape \in TRUTHY_SHAPES

\* What a write attempt can do: succeed; fail in open(), before the file is
\* touched; fail in json.dump after open("w") has truncated the file.
SaveOutcomes == {"ok", "open_fails", "dump_fails"}

\* Mutant of save_json: nothing is written.
save_json_not_written(file, data, outcome) == file

\* _save_json(path, data): the file after the call (every exception is swallowed).
save_json(file, data, outcome) ==
    CASE outcome = "ok"         -> JsonFile(data)
      [] outcome = "open_fails" -> file
      [] outcome = "dump_fails" -> PartialFile

\* _load_json(path, default)
load_json(file, default) ==
    IF file.kind = "json" THEN file.data
    ELSE IF file.kind = "json_value" THEN file.shape
    ELSE default

\* _load_json(path, []) or [] in the constructor of a store: the list of
\* entries it holds, and what it holds in place of a list of entries when the
\* document has another shape that Python takes as true.
NotJunk == "none"
store_list(file) ==
    IF file.kind = "json" THEN load_json(file, <<>>)
    ELSE IF file.kind = "json_value" THEN file.data
    ELSE <<>>
store_junk(file) ==
    IF file.kind = "json_value" /\ Truthy(load_json(file, <<>>))
    THEN load_json(file, <<>>)
    ELSE NotJunk

\* _now_iso()
now_iso == clock

----------------------------------------------------------------------------
(* Program constants                                                       *)

HISTORY_MAX   == 5000    \* self.history[:5000]
MAX_SCAN      == 3000    \* max_scan in HistoryManager.search
SUGGEST_LIMIT == 6       \* limit=6 in _populate_suggestions
DEFAULT_LIMIT == 12      \* limit: int = 12 in the two search methods

----------------------------------------------------------------------------
(* BookmarkManager                                                         *)

\* The url that add stores: a scheme-less url with a '.' and no blank gets
\* "http://" in front.
add_url(url) ==
    IF urlparse_scheme(url) = "" /\ Contains(url, ".") /\ ~Contains(url, " ")
    THEN "http://" \o url
    ELSE url

\* Mutant of exists: only the first entry is looked at.
exists_first_only(bms, url) ==
    IF url = "" THEN FALSE ELSE bms # <<>> /\ bms[1].url = url

\* BookmarkManager.exists
exists(bms, url) ==
    IF url = "" THEN FALSE ELSE \E i \in 1..Len(bms) : bms[i].url = url

\* Mutant of add_entries: no duplicate test.
add_entries_no_duplicate_test(bms, title, url, now) ==
    IF url = "" THEN bms
    ELSE LET u == add_url(url)
         IN  <<[title   |-> IF title # "" THEN title ELSE u,
                url     |-> u,
                created |-> now]>> \o bms

\* Mutant of add_entries: the new entry goes to the end.
add_entries_at_end(bms, title, url, now) ==
    IF url = "" THEN bms
    ELSE LET u == add_url(url)
         IN  IF \E i \in 1..Len(bms) : bms[i].url = u
             THEN bms
             ELSE Append(bms, [title   |-> IF title # "" THEN title ELSE u,
                               url     |-> u,
                               created |-> now])

\* BookmarkManager.add, on the list: the list after add(title, url) at time now.
add_entries(bms, title, url, now) ==
    IF url = "" THEN bms
    ELSE LET u == add_url(url)
         IN  IF \E i \in 1..Len(bms) : bms[i].url = u
             THEN bms
             ELSE Prepend([title   |-> IF title # "" THEN title ELSE u,
                           url     |-> u,
                           created |-> now], bms)

\* Mutant of remove_entries: only the first entry with the url goes.
remove_entries_first_only(bms, url) ==
    IF \E i \in 1..Len(bms) : bms[i].url = url
    THEN LET k == CHOOSE i \in 1..Len(bms) :
                    /\ bms[i].url = url
                    /\ \A j \in 1..(i - 1) : bms[j].url # url
         IN  SubSeq(bms, 1, k - 1) \o SubSeq(bms, k + 1, Len(bms))
    ELSE bms

\* Mutant of remove_entries: the url is prefixed as add prefixes it.
remove_entries_prefixed(bms, url) == SelectSeq(bms, LAMBDA b : b.url # add_url(url))

\* BookmarkManager.remove, on the list.
remove_entries(bms, url) == SelectSeq(bms, LAMBDA b : b.url # url)

\* Mutant of update_entries: every entry with old_url is rewritten.
update_entries_every_hit(bms, old_url, new_title, new_url, now) ==
    [k \in 1..Len(bms) |->
        IF bms[k].url = old_url
        THEN [title   |-> IF new_title # "" THEN new_title ELSE new_url,
              url     |-> new_url,
              created |-> bms[k].created,
              updated |-> now]
        ELSE bms[k]]

\* BookmarkManager.update, on the list: the first entry with old_url is rewritten
\* in place and stamped; no entry with old_url leaves the list as it is.
update_entries(bms, old_url, new_title, new_url, now) ==
    LET hits == {i \in 1..Len(bms) : bms[i].url = old_url}
    IN  IF hits = {} THEN bms
        ELSE LET k == CHOOSE i \in hits : \A j \in hits : i <= j
             IN  [bms EXCEPT ![k] =
                    [title   |-> IF new_title # "" THEN new_title ELSE new_url,
                     url     |-> new_url,
                     created |-> bms[k].created,
                     updated |-> now]]

\* score = (ql in t) * 2 + (ql in u)
score(b, ql) ==
    (IF Contains(Lower(b.title), ql) THEN 2 ELSE 0)
  + (IF Contains(Lower(b.url), ql) THEN 1 ELSE 0)

\* scored: the (score, entry) pairs of the entries with a non-zero score.
RECURSIVE scored_from(_, _, _)
scored_from(bms, i, ql) ==
    IF i > Len(bms) THEN <<>>
    ELSE LET s == score(bms[i], ql)
         IN  (IF s # 0 THEN <<(<<s, bms[i]>>)>> ELSE <<>>)
             \o scored_from(bms, i + 1, ql)

\* Mutant of sort_key: ascending scores.
sort_key_ascending(x) == x[1]

\* The key of  scored.sort(key=lambda x: -x[0])
sort_key(x) == 0 - x[1]

\* Mutant of insert_sorted: an unstable sort, a new element going before the
\* elements of equal key.
RECURSIVE insert_sorted_unstable(_, _)
insert_sorted_unstable(x, sorted) ==
    IF sorted = <<>> THEN <<x>>
    ELSE IF (0 - Head(sorted)[1]) < (0 - x[1])
         THEN <<Head(sorted)>> \o insert_sorted_unstable(x, Tail(sorted))
         ELSE <<x>> \o sorted

\* list.sort is stable: an element goes after every element already placed
\* whose key is not larger than its own.
RECURSIVE insert_sorted(_, _)
insert_sorted(x, sorted) ==
    IF sorted = <<>> THEN <<x>>
    ELSE IF sort_key(Head(sorted)) <= sort_key(x)
         THEN <<Head(sorted)>> \o insert_sorted(x, Tail(sorted))
         ELSE <<x>> \o sorted

RECURSIVE sort_scored(_, _)
sort_scored(xs, n) ==
    IF n = 0 THEN <<>> ELSE insert_sorted(xs[n], sort_scored(xs, n - 1))

\* BookmarkManager.search(q, limit), limit >= 0
BookmarkManager_search(bms, q, limit) ==
    LET ql == Lower(q)
    IN  IF ql = "" THEN Take(bms, limit)
        ELSE LET scored == scored_from(bms, 1, ql)
                 sorted == sort_scored(scored, Len(scored))
             IN  Take([i \in 1..Len(sorted) |-> sorted[i][2]], limit)

----------------------------------------------------------------------------
(* HistoryManager                                                          *)

\* Mutant of history_add: the list is not cut.
history_add_no_truncate(hist, title, url, now) ==
    <<[title |-> IF title # "" THEN title ELSE url,
       url   |-> url,
       time  |-> now]>> \o hist

\* Mutant of history_add: the new entry goes to the end.
history_add_append(hist, title, url, now) ==
    SubSeq(Append(hist, [title |-> IF title # "" THEN title ELSE url,
                         url   |-> url,
                         time  |-> now]), 1,
           IF Len(hist) + 1 < 5000 THEN Len(hist) + 1 ELSE 5000)

\* HistoryManager.add, on the list.
history_add(hist, title, url, now) ==
    Take(Prepend([title |-> IF title # "" THEN title ELSE url,
                  url   |-> url,
                  time  |-> now], hist), HISTORY_MAX)

\* Mutant of scan_step: the scan has no cap.
scan_step_no_cap(st, h, ql, limit) ==
    IF st.done THEN st
    ELSE IF Contains(Lower(h.title), ql) \/ Contains(Lower(h.url), ql)
         THEN [scanned |-> st.scanned + 1,
               res     |-> Append(st.res, h),
               done    |-> Len(st.res) + 1 >= limit]
         ELSE [st EXCEPT !.scanned = st.scanned + 1]

\* One turn of the scan loop of HistoryManager.search on the entry h: st holds
\* the loop's scanned and res, and done once a break has left the loop.
scan_step(st, h, ql, limit) ==
    IF st.done THEN st
    ELSE IF st.scanned >= MAX_SCAN THEN [st EXCEPT !.done = TRUE]
    ELSE IF Contains(Lower(h.title), ql) \/ Contains(Lower(h.url), ql)
         THEN [scanned |-> st.scanned + 1,
               res     |-> Append(st.res, h),
               done    |-> Len(st.res) + 1 >= limit]
         ELSE [st EXCEPT !.scanned = st.scanned + 1]

\* The scan loop over hist[lo..hi], in list order, from the loop state st
\* (the range is halved to keep the evaluation shallow on long lists).
RECURSIVE history_scan(_, _, _, _, _, _)
history_scan(hist, lo, hi, ql, limit, st) ==
    IF lo > hi \/ st.done THEN st
    ELSE IF lo = hi THEN scan_step(st, hist[lo], ql, limit)
    ELSE LET mid == (lo + hi) \div 2
         IN  history_scan(hist, mid + 1, hi, ql, limit,
                          history_scan(hist, lo, mid, ql, limit, st))

\* HistoryManager.search(q, limit), limit >= 0
HistoryManager_search(hist, q, limit) ==
    LET ql == Lower(q)
        st0 == [scanned |-> 0, res |-> <<>>, done |-> FALSE]
    IN  IF ql = "" THEN Take(hist, limit)
        ELSE Take(history_scan(hist, 1, Len(hist), ql, limit, st0).res, limit)

----------------------------------------------------------------------------------------------------------------------------------------------------------------------------------------------------
(* Observation of the calls                                                *)

\* The record kept of a store call: its name and arguments, the list before it
\* (before) and what a search returned (result).  For an add that follows an
\* add, prev_add holds, prev_title and prev_url are the arguments of that
\* earlier add and before2 is the list before it.
Call(op, title, url, new_url, q, limit, before, result) ==
    LET after_add == op = "bm_add" /\ lastCall.op = "bm_add"
    IN  [op |-> op, title |-> title, url |-> url, new_url |-> new_url,
         q |-> q, limit |-> limit, before |-> before,
         prev_add   |-> after_add,
         prev_title |-> IF after_add THEN lastCall.title ELSE "",
         prev_url   |-> IF after_add THEN lastCall.url ELSE "",
         before2    |-> IF after_add THEN lastCall.before ELSE before,
         result |-> result]

NoCall ==
    [op |-> "none", title |-> "", url |-> "", new_url |-> "", q |-> "",
     limit |-> 0, before |-> <<>>, prev_add |-> FALSE, prev_title |-> "",
     prev_url |-> "", before2 |-> <<>>, result |-> <<>>]

----------------------------------------------------------------------------
(* Store operations                                                        *)

\* The write of _save_json(path, data) on the file, with outcome o: a write
\* fails only while the run's budget of failing writes lasts.
Save(file, data, fileAfter, o) ==
    /\ o # "ok" => faults < MaxFaults
    /\ fileAfter = save_json(file, data, o)
    /\ faults' = IF o = "ok" THEN faults ELSE faults + 1

\* What a store method does on a value j held in place of the list of entries
\* (true, 5, "abc", {"a": 1}, {"tabs": 5} or [1, 2]): a loop that calls get on
\* each item raises (TypeError on true and 5, which are not iterable,
\* AttributeError on the others, whose items have no get); a slice raises on
\* true, 5 and the objects; insert raises on all but the list.
iterate_raises(j) == j # NotJunk
slice_raises(j)   == j \in {"true", "number", "object", "object_tabs_number"}
insert_raises(j)  == j \notin {NotJunk, "list_of_numbers"}

\* HistoryManager.search on j held in place of the list: with [1, 2] the
\* loop meets the numbers only when it has neither filled res nor reached the
\* scan cap on the entries in front of them.
history_search_raises(hist, j, q, limit) ==
    LET ql == Lower(q)
        st == history_scan(hist, 1, Len(hist), ql, limit,
                           [scanned |-> 0, res |-> <<>>, done |-> FALSE])
    IN  IF ql = "" THEN slice_raises(j)
        ELSE IF j = "list_of_numbers" THEN ~st.done /\ st.scanned < MAX_SCAN
        ELSE iterate_raises(j)

BookmarkManager_add(title, url, o) ==
    LET after == add_entries(bookmarks, title, url, now_iso)
    IN  /\ IF iterate_raises(junk.bookmarks)
           THEN /\ raised' = (url # "")
                /\ UNCHANGED <<bookmarks, clock, bookmarksFile, faults>>
           ELSE /\ raised' = FALSE
                /\ after # bookmarks => clock < MaxClock
                /\ bookmarks' = after
                /\ IF after # bookmarks
                   THEN /\ clock' = clock + 1
                        /\ Save(bookmarksFile, after, bookmarksFile', o)
                   ELSE UNCHANGED <<clock, bookmarksFile, faults>>
        /\ lastCall' = Call("bm_add", title, url, "", "", 0, bookmarks, <<>>)
        /\ UNCHANGED <<history, historyFile, burst, popLog, junk>>
        /\ UNCHANGED omniVars
        /\ UNCHANGED sessionVars
        /\ UNCHANGED downloadVars
        /\ UNCHANGED windowVars

BookmarkManager_remove(url, o) ==
    LET after == remove_entries(bookmarks, url)
    IN  /\ IF iterate_raises(junk.bookmarks)
           THEN /\ raised' = TRUE
                /\ UNCHANGED <<bookmarks, bookmarksFile, faults>>
           ELSE /\ raised' = FALSE
                /\ bookmarks' = after
                /\ Save(bookmarksFile, after, bookmarksFile', o)
        /\ lastCall' = Call("bm_remove", "", url, "", "", 0, bookmarks, <<>>)
        /\ UNCHANGED <<clock, history, historyFile, burst, popLog, junk>>
        /\ UNCHANGED omniVars
        /\ UNCHANGED sessionVars
        /\ UNCHANGED downloadVars
        /\ UNCHANGED windowVars

BookmarkManager_update(old_url, new_title, new_url, o) ==
    LET after == update_entries(bookmarks, old_url, new_title, new_url, now_iso)
    IN  /\ IF iterate_raises(junk.bookmarks)
           THEN /\ raised' = TRUE
                /\ UNCHANGED <<bookmarks, clock, bookmarksFile, faults>>
           ELSE /\ raised' = FALSE
                /\ after # bookmarks => clock < MaxClock
                /\ bookmarks' = after
                /\ clock' = IF after # bookmarks THEN clock + 1 ELSE clock
                /\ Save(bookmarksFile, after, bookmarksFile', o)
        /\ lastCall' = Call("bm_update", new_title, old_url, new_url, "", 0,
                            bookmarks, <<>>)
        /\ UNCHANGED <<history, historyFile, burst, popLog, junk>>
        /\ UNCHANGED omniVars
        /\ UNCHANGED sessionVars
        /\ UNCHANGED downloadVars
        /\ UNCHANGED windowVars

BookmarkManager_search_call(q, limit) ==
    /\ raised' = IF Lower(q) = "" THEN slice_raises(junk.bookmarks)
                 ELSE iterate_raises(junk.bookmarks)
    /\ lastCall' = Call("bm_search", "", "", "", q, limit, bookmarks,
                        BookmarkManager_search(bookmarks, q, limit))
    /\ UNCHANGED <<burst, popLog, junk>>
    /\ UNCHANGED storeVars
    /\ UNCHANGED omniVars
    /\ UNCHANGED sessionVars
    /\ UNCHANGED downloadVars
    /\ UNCHANGED windowVars

\* On [1, 2] held in place of the list, insert and the slice work: the entry
\* goes in front and the document written is again no list of entries.
HistoryManager_add(title, url, o) ==
    LET after == history_add(history, title, url, now_iso)
        written == save_json(historyFile, after, o)
    IN  /\ IF insert_raises(junk.history)
           THEN /\ raised' = TRUE
                /\ clock' = clock + 1
                /\ UNCHANGED <<history, historyFile, faults>>
           ELSE /\ raised' = FALSE
                /\ history' = after
                /\ clock' = clock + 1
                /\ IF junk.history = NotJunk
                   THEN Save(historyFile, after, historyFile', o)
                   ELSE Save(historyFile, after, written, o)
                        /\ historyFile' =
                              IF o = "ok"
                              THEN [JsonValue(junk.history) EXCEPT !.data = after]
                              ELSE written
        /\ lastCall' = Call("hist_add", title, url, "", "", 0, history, <<>>)
        /\ UNCHANGED <<bookmarks, bookmarksFile, burst, popLog, junk>>
        /\ UNCHANGED omniVars
        /\ UNCHANGED sessionVars
        /\ UNCHANGED downloadVars
        /\ UNCHANGED windowVars

HistoryManager_search_call(q, limit) ==
    /\ raised' = history_search_raises(history, junk.history, q, limit)
    /\ lastCall' = Call("hist_search", "", "", "", q, limit, history,
                        HistoryManager_search(history, q, limit))
    /\ UNCHANGED <<burst, popLog, junk>>
    /\ UNCHANGED storeVars
    /\ UNCHANGED omniVars
    /\ UNCHANGED sessionVars
    /\ UNCHANGED downloadVars
    /\ UNCHANGED windowVars

----------------------------------------------------------------------------
(* Construction                                                            *)

NoPopup == [visible |-> FALSE, items |-> <<>>]

\* The window's omnibox state after SchnopdihWindow.__init__
OmniInit ==
    /\ pendingText = ""
    /\ timerPending = 0
    /\ popup = NoPopup
    /\ burst = <<>>
    /\ popLog = <<>>

\* The default of SimpleRequestInterceptor.__init__
DEFAULT_BLOCKLIST ==
    << "doubleclick.net", "googlesyndication", "adservice.google", "analytics",
       "ads", "tracker", "tracking", "facebook.net", "facebook.com/tr",
       "amazon-adsystem" >>

\* SimpleRequestInterceptor(blocklist): blocklist or the default.
interceptor_blocklist(list) == IF list = <<>> THEN DEFAULT_BLOCKLIST ELSE list

DEFAULT_HOMEPAGE == "https://www.google.com/"

\* The view that add_tab puts into the tab widget and loads the url in; cache
\* is the cache path of its profile ("" stands for the path of the shared
\* profile or of a private profile that got none).
NewTab(url, private, cache) == [url |-> url, private |-> private, cache |-> cache]

NoRestore == [list |-> TRUE, tabs |-> <<>>, save_ok |-> FALSE,
              saved |-> <<>>, replaced |-> <<>>]

\* The four managers, the request filter and the window as their constructors
\* leave them, given the three files and the list the filter is built with.
ConstructedFull(bfile, hfile, sfile, list) ==
    /\ bookmarksFile = bfile
    /\ historyFile = hfile
    /\ sessionFile = sfile
    /\ bookmarks = store_list(bfile)
    /\ history = store_list(hfile)
    /\ junk = [bookmarks |-> store_junk(bfile), history |-> store_junk(hfile)]
    /\ active = <<>>
    /\ faults = 0
    /\ raised = FALSE
    /\ restored = NoRestore
    /\ lastCall = NoCall
    /\ blocklist = interceptor_blocklist(list)
    /\ tabs = <<NewTab(DEFAULT_HOMEPAGE, FALSE, "")>>
    /\ current = 1
    /\ cacheDirs = {}
    /\ closedTabs = <<>>
    /\ phase = "starting"

\* The application's construction: the filter gets no list, so the default.
ConstructedWith(bfile, hfile, sfile) == ConstructedFull(bfile, hfile, sfile, <<>>)

\* The same with no session file on disk.
Constructed(bfile, hfile) == ConstructedWith(bfile, hfile, AbsentFile)

----------------------------------------------------------------------------
(* Spec: the Bookmark Store, constructed with no file on disk, under any   *)
(* sequence of add, remove and update calls                                *)

Init ==
    /\ Constructed(AbsentFile, AbsentFile)
    /\ clock = 0
    /\ OmniInit

Next ==
    \/ \E t \in TITLES, u \in URLS, o \in SaveOutcomes :
            BookmarkManager_add(t, u, o)
    \/ \E u \in URLS, o \in SaveOutcomes :
            BookmarkManager_remove(u, o)
    \/ \E u \in URLS, t \in TITLES, n \in URLS, o \in SaveOutcomes :
            BookmarkManager_update(u, t, n, o)

Spec == Init /\ [][Next]_vars

\* C1: in every state reachable from the empty Bookmark Store by add, remove
\* and update calls, no two entries of the store have the same url.
C1_UniqueUrls ==
    \A i, j \in 1..Len(bookmarks) :
        i # j => bookmarks[i].url # bookmarks[j].url

\* The last two calls were add(t, url) and add(t, url) again.
AddedTwice ==
    /\ lastCall.op = "bm_add"
    /\ lastCall.prev_add
    /\ lastCall.prev_title = lastCall.title
    /\ lastCall.prev_url = lastCall.url

\* C4 as stated: add(t, url) twice in a row leaves exactly one entry whose url
\* equals url, for every url.
C4_Original ==
    AddedTwice => CountUrl(bookmarks, lastCall.url) = 1

\* C4, amended: for every non-empty url, after add(t, url) twice in a row the
\* second call has changed nothing and the number of entries whose url is the
\* url that add stores ("http://" + url for a scheme-less host-like url, else
\* url) is 1, or what it was before the two calls if that was more.
C4_AddTwice ==
    (AddedTwice /\ lastCall.url # "") =>
        LET u == add_url(lastCall.url)
            n == CountUrl(lastCall.before2, u)
        IN  /\ bookmarks = lastCall.before
            /\ CountUrl(bookmarks, u) = IF n > 1 THEN n ELSE 1

C4_Witness ==
    /\ AddedTwice
    /\ lastCall.url = "a.com"
    /\ lastCall.before2 = <<>>
    /\ CountUrl(bookmarks, "http://a.com") = 1
    /\ CountUrl(bookmarks, "a.com") = 0

\* C5: add(t, "a.com") followed by add(t, "http://a.com"), in either order,
\* leaves exactly one entry with url "http://a.com".
C5_PrefixBeforeDuplicateTest ==
    ( /\ lastCall.op = "bm_add"
      /\ lastCall.prev_add
      /\ lastCall.prev_title = lastCall.title
      /\ {lastCall.prev_url, lastCall.url} = {"a.com", "http://a.com"} )
    => CountUrl(bookmarks, "http://a.com") = 1

\* C30 as stated: add(title, url) for a url that no entry has puts one new
\* entry in front of the previous entries; for a url that an entry has it
\* changes nothing.
C30_Original ==
    lastCall.op = "bm_add" =>
        IF CountUrl(lastCall.before, lastCall.url) = 0
        THEN /\ Len(bookmarks) = Len(lastCall.before) + 1
             /\ Tail(bookmarks) = lastCall.before
        ELSE bookmarks = lastCall.before

\* C30, amended: add(title, url) for a non-empty url whose stored form
\* ("http://" + url for a scheme-less host-like url, else url) no entry has
\* puts one new entry with that stored url and the title (the stored url when
\* the title is empty) at index 0, the previous entries following in their
\* order; for the empty url, and when an entry has the stored form, the list
\* is unchanged.
C30_AddInFront ==
    lastCall.op = "bm_add" =>
        LET u == add_url(lastCall.url)
        IN  IF lastCall.url # "" /\ CountUrl(lastCall.before, u) = 0
            THEN /\ Len(bookmarks) = Len(lastCall.before) + 1
                 /\ Tail(bookmarks) = lastCall.before
                 /\ bookmarks[1].url = u
                 /\ bookmarks[1].title =
                        (IF lastCall.title # "" THEN lastCall.title ELSE u)
            ELSE bookmarks = lastCall.before

\* An add of a host-like url to a store that holds another entry.
C30_Witness ==
    /\ lastCall.op = "bm_add"
    /\ lastCall.url = "a.com"
    /\ Len(lastCall.before) = 1
    /\ lastCall.before[1].url = "http://b.org"
    /\ Len(bookmarks) = 2
    /\ bookmarks[1].url = "http://a.com"
    /\ bookmarks[2] = lastCall.before[1]

\* C17: a save is atomic for the caller: after any call of the Bookmark
\* Store, whether the write succeeded or failed, the bookmarks file holds the
\* complete document it held before the call or the complete new document.
C17_AtomicSave ==
    [][\/ bookmarksFile' = bookmarksFile
       \/ bookmarksFile' = JsonFile(bookmarks')]_vars

\* C12: for every url that no entry of the Bookmark Store has, remove(url)
\* leaves the list of entries, contents and order, as it was.
C12_RemoveAbsent ==
    (lastCall.op = "bm_remove" /\ CountUrl(lastCall.before, lastCall.url) = 0) =>
        bookmarks = lastCall.before

\* remove("a.com") on a store that holds "http://a.com" and another entry.
C12_Witness ==
    /\ lastCall.op = "bm_remove" /\ lastCall.url = "a.com"
    /\ Len(lastCall.before) = 2
    /\ CountUrl(lastCall.before, "http://a.com") = 1
    /\ bookmarks = lastCall.before

----------------------------------------------------------------------------
(* SpecBookmarksLoaded: the Bookmark Store constructed from a file that an *)
(* earlier run wrote (two entries may have the same url there, as update   *)
(* can leave them), under one add, remove or update call                   *)

LOADED_URLS == {"http://a.com", "http://b.org"}
NEW_TITLES  == {"", "Apple"}

LoadedBookmarkEntries ==
    {[title |-> "Banana", url |-> u, created |-> 0] : u \in LOADED_URLS}

BookmarksLoadedInit ==
    /\ \E doc \in DocsOf(LoadedBookmarkEntries) :
            Constructed(JsonFile(doc), AbsentFile)
    /\ clock = 1
    /\ OmniInit

BookmarksLoadedNext ==
    /\ lastCall = NoCall
    /\ \/ \E t \in NEW_TITLES, u \in URLS, o \in SaveOutcomes :
                BookmarkManager_add(t, u, o)
       \/ \E u \in URLS, o \in SaveOutcomes :
                BookmarkManager_remove(u, o)
       \/ \E u \in URLS, t \in NEW_TITLES, n \in URLS, o \in SaveOutcomes :
                BookmarkManager_update(u, t, n, o)

SpecBookmarksLoaded == BookmarksLoadedInit /\ [][BookmarksLoadedNext]_vars

\* BookmarkManager.all(): list(self.bookmarks) is a new list whose items are
\* the entry objects of the store themselves; each is named here by the place
\* it has in the store.
BookmarkManager_all(bms) == [i \in 1..Len(bms) |-> i]

\* The entries a list of such items shows.
entries_of(items, bms) == [k \in 1..Len(items) |-> bms[items[k]]]

LIST_CHANGES  == {"remove", "reverse", "insert_first_again"}
ENTRY_FIELDS  == {"title", "url"}
CALLER_TEXTS  == {"Cherry", "http://c.net"}

\* lst = bookmarks.all(), then the caller changes lst itself at place i:
\* del lst[i], lst.reverse() or lst.insert(0, lst[i]).  The store's list is
\* another object.  result holds what lst shows afterwards.
all_then_change_list(change, i) ==
    LET lst == BookmarkManager_all(bookmarks)
        after == CASE change = "remove"  -> SubSeq(lst, 1, i - 1) \o SubSeq(lst, i + 1, Len(lst))
                   [] change = "reverse" -> [k \in 1..Len(lst) |-> lst[Len(lst) + 1 - k]]
                   [] OTHER              -> <<lst[i]>> \o lst
    IN  /\ i \in 1..Len(lst)
        /\ lastCall' = Call("all_change_list", "", "", "", change, i, bookmarks,
                            entries_of(after, bookmarks))
        /\ raised' = FALSE
        /\ UNCHANGED <<burst, popLog, junk>>
        /\ UNCHANGED storeVars
        /\ UNCHANGED omniVars
        /\ UNCHANGED sessionVars
        /\ UNCHANGED downloadVars
        /\ UNCHANGED windowVars

\* lst = bookmarks.all(), then lst[i][field] = text: the item is the store's
\* own entry, so the assignment is made on it.  Nothing is saved.
all_then_change_entry(field, i, text) ==
    LET lst == BookmarkManager_all(bookmarks)
        after == IF field = "title"
                 THEN [bookmarks EXCEPT ![lst[i]].title = text]
                 ELSE [bookmarks EXCEPT ![lst[i]].url = text]
    IN  /\ i \in 1..Len(lst)
        /\ bookmarks' = after
        /\ lastCall' = Call("all_change_entry", "", "", "", field, i, bookmarks,
                            entries_of(lst, after))
        /\ raised' = FALSE
        /\ UNCHANGED <<bookmarksFile, history, historyFile, clock, faults>>
        /\ UNCHANGED <<burst, popLog, junk>>
        /\ UNCHANGED omniVars
        /\ UNCHANGED sessionVars
        /\ UNCHANGED downloadVars
        /\ UNCHANGED windowVars

\* SpecAll: a store loaded from a file, and a caller that takes all() and
\* changes what it got.
AllNext ==
    /\ lastCall = NoCall
    /\ \/ \E change \in LIST_CHANGES, i \in 1..MaxEntries :
                all_then_change_list(change, i)
       \/ \E field \in ENTRY_FIELDS, i \in 1..MaxEntries, text \in CALLER_TEXTS :
                all_then_change_entry(field, i, text)

SpecAll == BookmarksLoadedInit /\ [][AllNext]_vars

\* C29: whatever a caller does with the sequence all() returned (removing,
\* reordering or inserting items, changing the title or url of an item),
\* the entries of the store are what they were.
C29_DefensiveCopy ==
    lastCall.op \in {"all_change_list", "all_change_entry"} =>
        bookmarks = lastCall.before

\* C28: after remove(url) no entry of the store has the url, however many
\* had it, and the store holds all other entries of the list before the
\* call, in the order they had there.
C28_RemoveAll ==
    lastCall.op = "bm_remove" =>
        /\ \A i \in 1..Len(bookmarks) : bookmarks[i].url # lastCall.url
        /\ bookmarks = SelectSeq(lastCall.before, LAMBDA b : b.url # lastCall.url)

\* Two of three entries had the url.
C28_Witness ==
    /\ lastCall.op = "bm_remove"
    /\ lastCall.url = "http://a.com"
    /\ Len(lastCall.before) = 3
    /\ CountUrl(lastCall.before, "http://a.com") = 2
    /\ lastCall.before[2].url = "http://b.org"
    /\ Len(bookmarks) = 1
    /\ bookmarks[1] = lastCall.before[2]

\* The places of the entries of the list before the call whose url is oldUrl.
C13_Hits == {i \in 1..Len(lastCall.before) : lastCall.before[i].url = lastCall.url}

\* C13: update(oldUrl, newTitle, newUrl) changes only the first entry whose
\* url is oldUrl: that entry keeps its place and its created stamp and gets
\* the url newUrl and the title newTitle (newUrl when newTitle is empty); the
\* length of the list and every other entry stay as they were; with no entry
\* of url oldUrl the list stays as it was.
C13_UpdateFrame ==
    lastCall.op = "bm_update" =>
        IF C13_Hits = {} THEN bookmarks = lastCall.before
        ELSE LET k == CHOOSE i \in C13_Hits : \A j \in C13_Hits : i <= j
             IN  /\ Len(bookmarks) = Len(lastCall.before)
                 /\ \A i \in 1..Len(bookmarks) :
                        i # k => bookmarks[i] = lastCall.before[i]
                 /\ bookmarks[k].url = lastCall.new_url
                 /\ bookmarks[k].title =
                        (IF lastCall.title # "" THEN lastCall.title
                         ELSE lastCall.new_url)
                 /\ bookmarks[k].created = lastCall.before[k].created

\* An update of a url that the second and the third entry have: the second
\* entry is rewritten, the first and the third are as before.
C13_Witness ==
    /\ lastCall.op = "bm_update" /\ C13_Hits = {2, 3}
    /\ lastCall.new_url # lastCall.url
    /\ bookmarks[2].url = lastCall.new_url
    /\ bookmarks[3] = lastCall.before[3]
    /\ bookmarks[1] = lastCall.before[1]

----------------------------------------------------------------------------
(* SpecSearch: the stores constructed from a file of up to MaxEntries      *)
(* entries, under any sequence of search calls                             *)

SEARCH_TITLES == {"Apple", "Banana"}
SEARCH_URLS   == {"a.com", "apple.net", "http://a.com"}
QUERIES       == {"", "apple", "APPLE"}
LIMITS        == (0..MaxLimit) \cup {DEFAULT_LIMIT}

BookmarkEntries ==
    {[title |-> t, url |-> u, created |-> 0] : t \in SEARCH_TITLES, u \in SEARCH_URLS}

HistoryEntries ==
    {[title |-> t, url |-> u, time |-> 0] :
        t \in SEARCH_TITLES, u \in {"a.com", "apple.net"}}

SearchInit ==
    /\ \/ \E doc \in DocsOf(BookmarkEntries) :
            Constructed(JsonFile(doc), AbsentFile)
       \/ \E doc \in DocsOf(HistoryEntries) :
            Constructed(AbsentFile, JsonFile(doc))
    /\ clock = 0
    /\ OmniInit

SearchNext ==
    \/ \E q \in QUERIES, l \in LIMITS : BookmarkManager_search_call(q, l)
    \/ \E q \in QUERIES, l \in LIMITS : HistoryManager_search_call(q, l)

SpecSearch == SearchInit /\ [][SearchNext]_vars

\* The score of the claim: 2 for the lower-cased query in the lower-cased
\* title, plus 1 for it in the lower-cased url.
C8_Score(b, q) ==
    (IF Contains(Lower(b.title), Lower(q)) THEN 2 ELSE 0)
  + (IF Contains(Lower(b.url), Lower(q)) THEN 1 ELSE 0)

\* The entries of the store with the given score, in store order.
C8_WithScore(k, q) == SelectSeq(bookmarks, LAMBDA b : C8_Score(b, q) = k)

\* C8: for a non-empty query q and limit >= 0, Bookmarks.search(q, limit)
\* returns exactly the entries with a non-zero score, by descending score,
\* equal scores in store order, cut to the first limit entries.
C8_SearchRanked ==
    (lastCall.op = "bm_search" /\ lastCall.q # "") =>
        LET q == lastCall.q
            ranked == C8_WithScore(3, q) \o C8_WithScore(2, q) \o C8_WithScore(1, q)
            n == IF lastCall.limit < Len(ranked) THEN lastCall.limit ELSE Len(ranked)
        IN  lastCall.result = [i \in 1..n |-> ranked[i]]

\* A search that reorders (a score 1 entry stored before two distinct score 2
\* entries) and cuts.
C8_Witness ==
    /\ lastCall.op = "bm_search"
    /\ lastCall.q = "APPLE"
    /\ lastCall.limit = 2
    /\ Len(bookmarks) = 3
    /\ C8_Score(bookmarks[1], "APPLE") = 1
    /\ C8_Score(bookmarks[2], "APPLE") = 2
    /\ C8_Score(bookmarks[3], "APPLE") = 2
    /\ bookmarks[2] # bookmarks[3]
    /\ lastCall.result = <<bookmarks[2], bookmarks[3]>>

\* The bookmark list of C9 and its search("apple") call (limit left at its default).
C9_Case ==
    /\ lastCall.op = "bm_search"
    /\ lastCall.q = "apple"
    /\ lastCall.limit = DEFAULT_LIMIT
    /\ Len(bookmarks) = 2
    /\ bookmarks[1].title = "Apple"  /\ bookmarks[1].url = "a.com"
    /\ bookmarks[2].title = "Banana" /\ bookmarks[2].url = "apple.net"

\* C9 as stated: search("apple") returns Apple before Banana, Apple with score
\* 3 (title and url match) and Banana with score 1 (url match only).
C9_Original ==
    C9_Case =>
        /\ lastCall.result = <<bookmarks[1], bookmarks[2]>>
        /\ score(bookmarks[1], "apple") = 3
        /\ score(bookmarks[2], "apple") = 1

\* C9, amended: search("apple") returns Apple before Banana, Apple being a
\* title-only match with score 2 (its url "a.com" does not contain "apple")
\* and Banana a url-only match with score 1.
C9_AppleBeforeBanana ==
    C9_Case =>
        /\ lastCall.result = <<bookmarks[1], bookmarks[2]>>
        /\ score(bookmarks[1], "apple") = 2
        /\ score(bookmarks[2], "apple") = 1

C9_Witness ==
    /\ C9_Case
    /\ lastCall.result[1].title = "Apple"
    /\ lastCall.result[2].title = "Banana"

\* C10: for an empty query and any limit >= 0, Bookmarks.search and
\* History.search each return the first min(limit, length) entries of their
\* store, in store order.
C10_EmptyQueryPrefix ==
    (lastCall.op \in {"bm_search", "hist_search"} /\ lastCall.q = "") =>
        LET store == IF lastCall.op = "bm_search" THEN bookmarks ELSE history
            n == IF lastCall.limit < Len(store) THEN lastCall.limit ELSE Len(store)
        IN  /\ Len(lastCall.result) = n
            /\ \A i \in 1..n : lastCall.result[i] = store[i]

\* History.search("", 2) on three entries, none of which contains "apple".
C10_Witness ==
    /\ lastCall.op = "hist_search"
    /\ lastCall.q = ""
    /\ lastCall.limit = 2
    /\ Len(history) = 3
    /\ \A i \in 1..3 : C8_Score(history[i], "apple") = 0
    /\ lastCall.result = <<history[1], history[2]>>

----------------------------------------------------------------------------
(* SpecHistory: the History Store under History.add calls with pairwise    *)
(* distinct urls, every write succeeding.  The store is constructed with   *)
(* no file on disk, or (the application having been restarted) from the    *)
(* file that the first HISTORY_MAX - 2 of these calls wrote; the clock,    *)
(* which counts the calls, goes on from there.                             *)

\* The url and the title of the n-th call (every second call has no title).
HIST_URLS == [n \in 1..(MaxAdds + 1) |-> "http://h/" \o ToString(n)]
HistUrl(n) == HIST_URLS[n]
HistTitle(n) == IF n % 2 = 0 THEN "" ELSE "Apple"

\* The list that the first n calls on the empty store wrote (n below the
\* cap): each call puts its entry in front, with the time of the call.
AddedSoFar(n) ==
    [i \in 1..n |->
        history_add(<<>>, HistTitle(n - i + 1), HistUrl(n - i + 1), n - i)[1]]

EarlierAdds == {0, HISTORY_MAX - 2}

HistoryInit ==
    /\ \E n \in EarlierAdds :
            /\ Constructed(AbsentFile,
                           IF n = 0 THEN AbsentFile ELSE JsonFile(AddedSoFar(n)))
            /\ clock = n
    /\ OmniInit

HistoryNext ==
    /\ clock < MaxAdds
    /\ HistoryManager_add(HistTitle(clock + 1), HistUrl(clock + 1), "ok")

SpecHistory == HistoryInit /\ [][HistoryNext]_vars

\* The entry that the n-th call adds.
C7_Entry(n) ==
    [title |-> IF HistTitle(n) = "" THEN HistUrl(n) ELSE HistTitle(n),
     url   |-> HistUrl(n),
     time  |-> n - 1]

\* C7: from an empty History Store, after n History.add calls with pairwise
\* distinct urls the list is exactly the min(n, 5000) most recently added
\* entries, newest first (after 5001 calls only the first-added entry is gone).
C7_MostRecentNewestFirst ==
    LET n == clock
        m == IF n < 5000 THEN n ELSE 5000
    IN  /\ Len(history) = m
        /\ \A i \in 1..m : history[i] = C7_Entry(n - i + 1)

\* After 5001 calls the list starts with the 5001st entry and ends with the 2nd.
C7_Witness ==
    /\ clock = 5001
    /\ lastCall.op = "hist_add"
    /\ Len(history) = 5000
    /\ history[1].url = HistUrl(5001)
    /\ history[5000].url = HistUrl(2)
    /\ \A i \in 1..Len(history) : history[i].url # HistUrl(1)

----------------------------------------------------------------------------
(* SpecHistoryLoaded: the History Store constructed from a file of any     *)
(* length around the cap, under History.add calls                          *)

LoadedLengths ==
    {0, 1, HISTORY_MAX - 1, HISTORY_MAX, HISTORY_MAX + 1, HISTORY_MAX + MaxEntries}

\* A history file of n entries, written by an earlier run.
HistoryDoc(n) == [i \in 1..n |-> [title |-> "Apple", url |-> HistUrl(i), time |-> 0]]

HistoryLoadedInit ==
    /\ \E n \in LoadedLengths : Constructed(AbsentFile, JsonFile(HistoryDoc(n)))
    /\ clock = 0
    /\ OmniInit

HistoryLoadedNext ==
    /\ clock < MaxClock
    /\ \E t \in {"", "Apple"}, u \in {"a.com"}, o \in SaveOutcomes :
            HistoryManager_add(t, u, o)

SpecHistoryLoaded == HistoryLoadedInit /\ [][HistoryLoadedNext]_vars

\* C6: after every History.add call, whatever the length of the list before
\* the call, the history list has at most 5000 entries.
C6_AtMost5000AfterAdd ==
    lastCall.op = "hist_add" => Len(history) <= 5000

\* An add on a list that was longer than the cap.
C6_Witness ==
    /\ lastCall.op = "hist_add"
    /\ Len(lastCall.before) > 5000
    /\ Len(history) = 5000
    /\ history[1].url = "a.com"

----------------------------------------------------------------------------
(* SpecHistorySearch: the History Store constructed from a file longer     *)
(* than the scan cap, under one History.search call (a search changes      *)
(* nothing in the store, so one call from each store covers every call)    *)

\* The places of the list where an entry matching "apple" may stand.
ScanPositions == {1, MAX_SCAN, MAX_SCAN + 1, MAX_SCAN + 2}

\* A history file of MAX_SCAN + 2 entries, newest first, written by an
\* earlier run: the entries at the places S match "apple", by the title at
\* an odd place and by the url at an even one.
ScanDoc(S) ==
    [i \in 1..(MAX_SCAN + 2) |->
        [title |-> IF i \in S /\ i % 2 = 1 THEN "Apple" ELSE "Banana",
         url   |-> IF i \in S /\ i % 2 = 0 THEN "apple.net" ELSE "b.org",
         time  |-> MAX_SCAN + 2 - i]]

HistorySearchInit ==
    /\ \E S \in SUBSET ScanPositions :
            Constructed(AbsentFile, JsonFile(ScanDoc(S)))
    /\ clock = MAX_SCAN + 2
    /\ OmniInit

HistorySearchNext ==
    /\ lastCall = NoCall
    /\ \E q \in QUERIES, limit \in LIMITS : HistoryManager_search_call(q, limit)

SpecHistorySearch == HistorySearchInit /\ [][HistorySearchNext]_vars

\* The entry h matches the query q.
C11_Matches(h, q) ==
    \/ Contains(Lower(h.title), Lower(q))
    \/ Contains(Lower(h.url), Lower(q))

\* C11: for a non-empty query, History.search(q, limit) returns exactly the
\* first limit entries, in list order, among those of the first 3000 entries
\* that match q; an entry at place 3001 or later is never returned.
C11_ScanCap ==
    lastCall.op = "hist_search" /\ lastCall.q # "" =>
        lastCall.result =
            Take(SelectSeq(Take(lastCall.before, 3000),
                           LAMBDA h : C11_Matches(h, lastCall.q)),
                 lastCall.limit)

\* A search that found fewer matches than its limit among the first 3000
\* entries although the entry at place 3001 matches.
C11_Witness ==
    /\ lastCall.op = "hist_search" /\ lastCall.q = "APPLE"
    /\ lastCall.limit = 2
    /\ C11_Matches(lastCall.before[3001], lastCall.q)
    /\ C11_Matches(lastCall.before[3000], lastCall.q)
    /\ lastCall.result = <<lastCall.before[3000]>>

----------------------------------------------------------------------------
(* The omnibox: the debounce timer and the suggestion population           *)

\* Mutant of timer_start: a timer per edit, none cancelled.
timer_start_no_restart(pending) == pending + 1

\* Mutant of timer_start: start() arms nothing.
timer_start_not_armed(pending) == pending

\* omnibox_timer.start() on the single-shot timer: a running timer is stopped
\* and restarted, so one timeout is pending whatever was pending before.
timer_start(pending) == 1

\* Mutant of omnibox_edit: the text is recorded only when no timeout is pending.
omnibox_edit_keep_first(st, text) ==
    [pendingText  |-> IF st.timerPending > 0 THEN st.pendingText ELSE Strip(text),
     timerPending |-> 1]

\* _on_omnibox_edit, on the omnibox state st = [pendingText, timerPending]: the
\* stripped text is recorded and the timer is (re)started.  (The except branch,
\* which populates at once, is taken only if QTimer.start raises; it does not.)
omnibox_edit(st, text) ==
    [pendingText  |-> Strip(text),
     timerPending |-> timer_start(st.timerPending)]

\* The (title, url) pairs of a search result.
RECURSIVE items_of(_)
items_of(entries) ==
    IF entries = <<>> THEN <<>>
    ELSE <<(<<Head(entries).title, Head(entries).url>>)>> \o items_of(Tail(entries))

\* Mutant of populate_suggestions: the history results come first.
populate_suggestions_history_first(text, bms, hist, pop) ==
    IF text = "" THEN [pop EXCEPT !.visible = FALSE]
    ELSE LET items == items_of(HistoryManager_search(hist, text, SUGGEST_LIMIT))
                      \o items_of(BookmarkManager_search(bms, text, SUGGEST_LIMIT))
         IN  IF items = <<>> THEN [pop EXCEPT !.visible = FALSE]
             ELSE [visible |-> TRUE, items |-> items]

\* _populate_suggestions, on the popup: the popup after a population for text.
populate_suggestions(text, bms, hist, pop) ==
    IF text = "" THEN [pop EXCEPT !.visible = FALSE]
    ELSE LET items == items_of(BookmarkManager_search(bms, text, SUGGEST_LIMIT))
                      \o items_of(HistoryManager_search(hist, text, SUGGEST_LIMIT))
         IN  IF items = <<>> THEN [pop EXCEPT !.visible = FALSE]
             ELSE [visible |-> TRUE, items |-> items]

\* Mutant of populate_queries: the stores are searched for the empty text too.
populate_queries_always(text) == <<"bookmarks", "history">>

\* The store searches that _populate_suggestions makes for the text, in order:
\* with the empty text it returns before them.
populate_queries(text) ==
    IF text = "" THEN <<>> ELSE <<"bookmarks", "history">>

\* urlbar.textEdited(text): an edit that arrives while a timeout is pending
\* continues the burst, any other edit begins a new one.
on_omnibox_edit(text) ==
    LET st == omnibox_edit([pendingText |-> pendingText,
                            timerPending |-> timerPending], text)
    IN  /\ timerPending > 0 => Len(burst) < MaxBurst
        /\ pendingText' = st.pendingText
        /\ timerPending' = st.timerPending
        /\ burst' = IF timerPending > 0 THEN Append(burst, text) ELSE <<text>>
        /\ popLog' = IF timerPending > 0 THEN popLog ELSE <<>>
        /\ UNCHANGED <<popup, lastCall>>
        /\ UNCHANGED storeVars
        /\ UNCHANGED sessionVars
        /\ UNCHANGED downloadVars
        /\ UNCHANGED windowVars
        /\ UNCHANGED errVars

\* omnibox_timer.timeout: the single shot fires and _populate_suggestions runs.
omnibox_timer_timeout ==
    /\ timerPending > 0
    /\ timerPending' = timerPending - 1
    /\ popup' = populate_suggestions(pendingText, bookmarks, history, popup)
    /\ popLog' = Append(popLog, [text   |-> pendingText,
                                 latest |-> IF burst = <<>> THEN pendingText
                                            ELSE burst[Len(burst)],
                                 queries |-> populate_queries(pendingText),
                                 popup  |-> popup'])
    /\ UNCHANGED <<pendingText, burst, lastCall>>
    /\ UNCHANGED storeVars
    /\ UNCHANGED sessionVars
    /\ UNCHANGED downloadVars
    /\ UNCHANGED windowVars
    /\ UNCHANGED errVars

----------------------------------------------------------------------------
(* SpecOmnibox: the address bar over stores constructed from their files,  *)
(* under any sequence of edits and timer timeouts                          *)

EDIT_TEXTS == {"", "a", "ap", "app", " app "}

\* The last document of each store has one entry more than a population asks
\* for, every one matching "app".
OmniboxBookmarkDocs ==
    { <<>>,
      << [title |-> "Apple",  url |-> "a.com",     created |-> 0],
         [title |-> "Banana", url |-> "apple.net", created |-> 0] >>,
      [i \in 1..(SUGGEST_LIMIT + 1) |->
          [title |-> "Apple", url |-> "a.com/" \o ToString(i), created |-> 0]] }

OmniboxHistoryDocs ==
    { <<>>,
      << [title |-> "Apple", url |-> "apple.net", time |-> 0] >>,
      [i \in 1..(SUGGEST_LIMIT + 1) |->
          [title |-> "Apple", url |-> "h.org/" \o ToString(i), time |-> 0]] }

OmniboxInit ==
    /\ \E bdoc \in OmniboxBookmarkDocs, hdoc \in OmniboxHistoryDocs :
            Constructed(JsonFile(bdoc), JsonFile(hdoc))
    /\ clock = 0
    /\ OmniInit

OmniboxNext ==
    \/ \E text \in EDIT_TEXTS : on_omnibox_edit(text)
    \/ omnibox_timer_timeout

SpecOmnibox == OmniboxInit /\ [][OmniboxNext]_vars

\* C32: a population hides the popup exactly when its text is empty or both
\* searches for it return nothing; for the empty text it searches neither
\* store; in every other case it shows a list that is not empty.
C32_HideOrPublish ==
    \A i \in 1..Len(popLog) :
        LET e == popLog[i]
            nothing ==
                \/ e.text = ""
                \/ /\ BookmarkManager_search(bookmarks, e.text, SUGGEST_LIMIT) = <<>>
                   /\ HistoryManager_search(history, e.text, SUGGEST_LIMIT) = <<>>
        IN  /\ ~e.popup.visible <=> nothing
            /\ e.text = "" => e.queries = <<>>
            /\ e.text # "" => e.queries = <<"bookmarks", "history">>
            /\ ~nothing => e.popup.visible /\ e.popup.items # <<>>

\* A population for the empty text, over stores that hold entries.
C32_Witness ==
    /\ Len(popLog) = 1
    /\ popLog[1].text = ""
    /\ popLog[1].queries = <<>>
    /\ ~popLog[1].popup.visible
    /\ bookmarks # <<>>
    /\ history # <<>>

\* The (title, url) pairs of the results of the two searches for text.
C23_BookmarkPairs(text) ==
    LET r == BookmarkManager_search(bookmarks, text, 6)
    IN  [i \in 1..Len(r) |-> <<r[i].title, r[i].url>>]
C23_HistoryPairs(text) ==
    LET r == HistoryManager_search(history, text, 6)
    IN  [i \in 1..Len(r) |-> <<r[i].title, r[i].url>>]

\* C23: for a non-empty pending text, the candidate list that a population
\* publishes is Bookmarks.search(text, 6) followed by History.search(text, 6),
\* as (title, url) pairs in the order the stores returned them, and has at
\* most 12 items (with no result at all the popup is hidden instead).
C23_BookmarksThenHistory ==
    \A i \in 1..Len(popLog) :
        popLog[i].text # "" =>
            LET expected == C23_BookmarkPairs(popLog[i].text)
                                \o C23_HistoryPairs(popLog[i].text)
            IN  IF expected = <<>> THEN ~popLog[i].popup.visible
                ELSE /\ popLog[i].popup.visible
                     /\ popLog[i].popup.items = expected
                     /\ Len(popLog[i].popup.items) <= 12

\* A population that published six bookmark results followed by six history
\* results, one entry of each store being left out.
C23_Witness ==
    /\ Len(popLog) = 1 /\ popLog[1].text = "app"
    /\ Len(bookmarks) = 7 /\ Len(history) = 7
    /\ Len(popup.items) = 12
    /\ popup.items[6] = <<"Apple", "a.com/6">>
    /\ popup.items[7] = <<"Apple", "h.org/1">>

\* C2 as stated: for any burst of n >= 1 edits, each arriving before the timer
\* armed by the previous one has fired, exactly one population runs for the
\* whole burst (none before the timer fires, one once it has), and it runs
\* with the text of the last edit.
C2_Original ==
    burst # <<>> =>
        IF timerPending > 0 THEN popLog = <<>>
        ELSE /\ Len(popLog) = 1
             /\ popLog[1].text = burst[Len(burst)]

\* C2, amended: ... and it runs with the text of the last edit stripped of
\* leading and trailing white space.
C2_OnePopulationPerBurst ==
    burst # <<>> =>
        IF timerPending > 0 THEN popLog = <<>>
        ELSE /\ Len(popLog) = 1
             /\ popLog[1].text = Strip(burst[Len(burst)])

\* The burst "a", "ap", "app" has ended with one population, for "app".
C2_Witness ==
    /\ burst = <<"a", "ap", "app">>
    /\ timerPending = 0
    /\ Len(popLog) = 1
    /\ popLog[1].text = "app"

\* C3 as stated: every population uses the text of the most recently armed
\* edit event, never that of an earlier, superseded edit.
C3_Original ==
    \A i \in 1..Len(popLog) : popLog[i].text = popLog[i].latest

\* C3, amended: every population uses the text of the most recently armed edit
\* event stripped of leading and trailing white space, and the text of an
\* earlier edit of the burst only where it strips to the same text.
C3_NeverStale ==
    \A i \in 1..Len(popLog) :
        /\ popLog[i].text = Strip(popLog[i].latest)
        /\ \A k \in 1..(Len(burst) - 1) :
              popLog[i].text = Strip(burst[k]) =>
                  Strip(burst[k]) = Strip(burst[Len(burst)])

\* A population that published, after an edit superseded another.
C3_Witness ==
    /\ burst = <<"a", " app ">>
    /\ Len(popLog) = 1
    /\ popLog[1].text = "app"
    /\ popLog[1].popup.visible
    /\ popup.items # <<>>

----------------------------------------------------------------------------
(* SessionManager                                                          *)

\* Mutant of session_restore: only the first tab of a snapshot comes back.
session_restore_first_tab(file) ==
    IF file.kind = "json"
    THEN [raised |-> FALSE, list |-> TRUE, tabs |-> Take(file.data.tabs, 1)]
    ELSE [raised |-> FALSE, list |-> TRUE, tabs |-> <<>>]

\* SessionManager.restore() on the session file: whether it raises, whether
\* what it returns is a list, and the list.  A document that Python takes as
\* true and that is no object has no get (AttributeError); {"tabs": 5}
\* gives 5.
session_restore(file) ==
    LET data == load_json(file, "null")
    IN  IF file.kind = "json"
        THEN [raised |-> FALSE, list |-> TRUE, tabs |-> data.tabs]
        ELSE IF ~Truthy(data) \/ data = "object"
        THEN [raised |-> FALSE, list |-> TRUE, tabs |-> <<>>]
        ELSE IF data = "object_tabs_number"
        THEN [raised |-> FALSE, list |-> FALSE, tabs |-> <<>>]
        ELSE [raised |-> TRUE, list |-> TRUE, tabs |-> <<>>]

\* SessionManager.save(tabs), the write having the outcome o.  The call is
\* recorded with the tabs in before, the outcome in q and, in result, the tabs
\* of the snapshot that the file held.
SessionManager_save(urls, o) ==
    /\ clock < MaxClock
    /\ clock' = clock + 1
    /\ Save(sessionFile, [tabs |-> urls, saved |-> now_iso], sessionFile', o)
    /\ raised' = FALSE
    /\ lastCall' = Call("session_save", "", "", "", o, 0, urls,
                        session_restore(sessionFile).tabs)
    /\ UNCHANGED <<bookmarks, bookmarksFile, history, historyFile, burst, popLog,
                   restored, junk>>
    /\ UNCHANGED omniVars
    /\ UNCHANGED downloadVars
    /\ UNCHANGED windowVars

\* SessionManager.restore(); save_ok tells that the call before it was a save
\* whose write succeeded, saved and replaced are that save's tabs and the
\* tabs of the snapshot it replaced.
SessionManager_restore ==
    LET r == session_restore(sessionFile)
        after_save == lastCall.op = "session_save"
    IN  /\ raised' = r.raised
        /\ restored' = [list     |-> r.list,
                        tabs     |-> r.tabs,
                        save_ok  |-> after_save /\ lastCall.q = "ok",
                        saved    |-> IF after_save THEN lastCall.before ELSE <<>>,
                        replaced |-> IF after_save THEN lastCall.result ELSE <<>>]
        /\ lastCall' = Call("session_restore", "", "", "", "", 0, <<>>, r.tabs)
        /\ UNCHANGED <<sessionFile, junk, burst, popLog>>
        /\ UNCHANGED storeVars
        /\ UNCHANGED omniVars
        /\ UNCHANGED downloadVars
        /\ UNCHANGED windowVars

----------------------------------------------------------------------------
(* SpecSession: the Session Store, whatever the session file holds at the  *)
(* start, under save and restore calls                                     *)

TAB_URLS == {"https://a", "https://b"}
TAB_LISTS == UNION {[1..n -> TAB_URLS] : n \in 0..2}

SessionFiles ==
    {AbsentFile, UnreadableFile, PartialFile}
        \cup {JsonValue(shape) : shape \in JSON_SHAPES}

SessionInit ==
    /\ \E sfile \in SessionFiles : ConstructedWith(AbsentFile, AbsentFile, sfile)
    /\ clock = 0
    /\ OmniInit

SessionNext ==
    \/ \E urls \in TAB_LISTS, o \in SaveOutcomes : SessionManager_save(urls, o)
    \/ SessionManager_restore

SpecSession == SessionInit /\ [][SessionNext]_vars

\* C14: Session.save(tabs) with a successful write followed by
\* Session.restore() returns exactly tabs, whatever was saved before.
C14_RoundTrip ==
    (lastCall.op = "session_restore" /\ restored.save_ok) =>
        /\ ~raised
        /\ restored.list
        /\ restored.tabs = restored.saved

\* A restore after the second of two saves of different tabs.
C14_Witness ==
    /\ lastCall.op = "session_restore" /\ restored.save_ok
    /\ restored.replaced = <<"https://b">>
    /\ restored.saved = <<"https://a", "https://b">>
    /\ restored.tabs = <<"https://a", "https://b">>

\* C15: Session.restore() returns the empty sequence and raises nothing
\* whenever the session file is absent, unreadable, not parseable as JSON, or
\* parseable but not a snapshot object with a tabs list.
C15_RestoreDegrades ==
    (lastCall.op = "session_restore" /\ sessionFile.kind # "json") =>
        /\ ~raised
        /\ restored.list
        /\ restored.tabs = <<>>

----------------------------------------------------------------------------
(* SpecMalformed: the bookmark and history stores constructed when one of  *)
(* their files is missing, unreadable or malformed, under their calls      *)

MalformedFiles ==
    {AbsentFile, UnreadableFile, PartialFile}
        \cup {JsonValue(shape) : shape \in JSON_SHAPES \ {"empty_list"}}

MALFORMED_URLS == {"", "a.com"}

MalformedInit ==
    /\ \/ \E f \in MalformedFiles : Constructed(f, AbsentFile)
       \/ \E f \in MalformedFiles : Constructed(AbsentFile, f)
    /\ clock = 0
    /\ OmniInit

MalformedNext ==
    \/ \E u \in MALFORMED_URLS, o \in SaveOutcomes :
            BookmarkManager_add("Apple", u, o)
    \/ \E u \in MALFORMED_URLS, o \in SaveOutcomes :
            BookmarkManager_remove(u, o)
    \/ \E u \in MALFORMED_URLS, o \in SaveOutcomes :
            BookmarkManager_update(u, "Apple", "a.com", o)
    \/ \E q \in {"", "apple"} : BookmarkManager_search_call(q, DEFAULT_LIMIT)
    \/ \E u \in MALFORMED_URLS, o \in SaveOutcomes :
            clock < MaxClock /\ HistoryManager_add("Apple", u, o)
    \/ \E q \in {"", "apple"} : HistoryManager_search_call(q, DEFAULT_LIMIT)

SpecMalformed == MalformedInit /\ [][MalformedNext]_vars

\* C16: when the bookmarks or history file is missing, unreadable or
\* malformed (content that is JSON but no list of records included), the
\* store is constructed with zero entries, and neither the construction nor
\* any later store call raises to the caller.
C16_MalformedDegrades ==
    /\ ~raised
    /\ lastCall = NoCall =>
            /\ junk.bookmarks = NotJunk /\ Len(bookmarks) = 0
            /\ junk.history = NotJunk /\ Len(history) = 0

----------------------------------------------------------------------------
(* DownloadManager                                                         *)

\* Integer division that cuts toward zero, as Python's int() cuts a float.
Abs(n) == IF n < 0 THEN 0 - n ELSE n
TruncDiv(a, b) ==
    IF (a < 0) = (b < 0) THEN Abs(a) \div Abs(b) ELSE 0 - (Abs(a) \div Abs(b))

\* The reports (rec, total) for which the double (rec / total) * 100 lies
\* just below the exact quotient: 29 / 100 * 100 is 28.999999999999996.
ROUNDED_BELOW == {<<29, 100>>}

\* int((rec / total) * 100) if total else 0
progress_percent(rec, total) ==
    IF total = 0 THEN 0
    ELSE IF <<rec, total>> \in ROUNDED_BELOW THEN TruncDiv(100 * rec, total) - 1
    ELSE TruncDiv(100 * rec, total)

\* DownloadRecord(item, dest) as DownloadManager.add leaves it.  bound tells
\* that add connected the item's two signals (it does not when item.setPath
\* or item.accept raises).  seen is an observation: the number of steps of the
\* scenario  progress (50, 100), progress (100, 100), completion  that the
\* last events of the record make up.
DownloadRecord(item, dest, bound) ==
    [item |-> item, dest |-> dest, progress |-> 0, finished |-> FALSE,
     bound |-> bound, seen |-> 0]

\* Mutant of progress_record: a report of everything received ends the download.
progress_record_finishes(dr, rec, total) ==
    [dr EXCEPT !.progress = progress_percent(rec, total),
               !.finished = (dr.finished \/ rec = total),
               !.seen = 0]

\* DownloadManager._progress(dr, rec, total)
progress_record(dr, rec, total) ==
    [dr EXCEPT !.progress = progress_percent(rec, total),
               !.seen = IF <<rec, total>> = <<50, 100>> THEN 1
                        ELSE IF <<rec, total>> = <<100, 100>> /\ dr.seen = 1 THEN 2
                        ELSE 0]

\* Mutant of finish_record: the completed record is set back to 0 percent.
finish_record_resets(dr) ==
    [dr EXCEPT !.finished = TRUE, !.progress = 0,
               !.seen = IF dr.seen = 2 THEN 3 ELSE 0]

\* DownloadManager._finish(dr)
finish_record(dr) ==
    [dr EXCEPT !.finished = TRUE, !.seen = IF dr.seen = 2 THEN 3 ELSE 0]

\* Mutant of cleanup_records: the last record goes too.
cleanup_records_drops_last(recs) ==
    LET kept == SelectSeq(recs, LAMBDA d : ~d.finished)
    IN  SubSeq(kept, 1, Len(kept) - 1)

\* DownloadManager.cleanup_finished, on the list.
cleanup_records(recs) == SelectSeq(recs, LAMBDA d : ~d.finished)

\* A call or an event of the Download Tracker leaves the stores alone; it is
\* recorded with the place of its record in limit and, for a cleanup pass,
\* the list before it in before, for a progress event the report in result.
DownloadFrame(op, i, report) ==
    /\ lastCall' = Call(op, "", "", "", "", i,
                        IF op = "dl_cleanup" THEN active ELSE <<>>, report)
    /\ raised' = FALSE
    /\ UNCHANGED <<burst, popLog, junk>>
    /\ UNCHANGED storeVars
    /\ UNCHANGED omniVars
    /\ UNCHANGED sessionVars
    /\ UNCHANGED windowVars

DownloadManager_add(item, dest, bound) ==
    /\ active' = Append(active, DownloadRecord(item, dest, bound))
    /\ DownloadFrame("dl_add", Len(active) + 1, <<>>)

\* The item's downloadProgress signal, delivered to the record at place i.
DownloadManager_progress(i, rec, total) ==
    /\ active[i].bound
    /\ active' = [active EXCEPT ![i] = progress_record(active[i], rec, total)]
    /\ DownloadFrame("dl_progress", i, <<rec, total>>)

\* The same with a report on which the arithmetic raises (a rec or a total
\* that is no number): the except branch stores 0.
DownloadManager_progress_failing(i) ==
    /\ active[i].bound
    /\ active' = [active EXCEPT ![i] = [@ EXCEPT !.progress = 0, !.seen = 0]]
    /\ DownloadFrame("dl_progress_failing", i, <<>>)

\* The item's finished signal, delivered to the record at place i.
DownloadManager_finish(i) ==
    /\ active[i].bound
    /\ active' = [active EXCEPT ![i] = finish_record(active[i])]
    /\ DownloadFrame("dl_finish", i, <<>>)

DownloadManager_cleanup_finished ==
    /\ active' = cleanup_records(active)
    /\ DownloadFrame("dl_cleanup", 0, <<>>)

----------------------------------------------------------------------------
(* SpecDownloads: the Download Tracker under add calls, the engine's       *)
(* progress and completion events for the records of the active list, and  *)
(* cleanup passes                                                          *)

\* The engine's download items (each is added once while it is in the list)
\* and its reports (rec, total).
ITEMS   == {"item1", "item2", "item3"}
DESTS   == {"/d/f.zip"}
REPORTS == {<<50, 100>>, <<100, 100>>, <<29, 100>>, <<150, 100>>, <<50, 0>>,
            <<50, -1>>}

ActiveItems == {active[i].item : i \in 1..Len(active)}

DownloadsInit ==
    /\ Constructed(AbsentFile, AbsentFile)
    /\ clock = 0
    /\ OmniInit

DownloadsNext ==
    \/ \E item \in ITEMS \ ActiveItems, dest \in DESTS, bound \in BOOLEAN :
            DownloadManager_add(item, dest, bound)
    \/ \E i \in 1..Len(active), r \in REPORTS :
            DownloadManager_progress(i, r[1], r[2])
    \/ \E i \in 1..Len(active) : DownloadManager_progress_failing(i)
    \/ \E i \in 1..Len(active) : DownloadManager_finish(i)
    \/ DownloadManager_cleanup_finished

SpecDownloads == DownloadsInit /\ [][DownloadsNext]_vars

\* C18: a record that receives the progress events (50, 100) and (100, 100)
\* and then a completion event has progress 100 and finished true, and a
\* following cleanup_finished() removes it from the active list.
C18_Scenario ==
    /\ \A i \in 1..Len(active) :
            active[i].seen = 3 =>
                active[i].progress = 100 /\ active[i].finished
    /\ lastCall.op = "dl_cleanup" =>
            \A i \in 1..Len(lastCall.before) :
                lastCall.before[i].seen = 3 =>
                    lastCall.before[i].item \notin ActiveItems

\* A cleanup that removed a record which had gone through the scenario and
\* kept the other record of the list.
C18_Witness ==
    /\ lastCall.op = "dl_cleanup"
    /\ Len(lastCall.before) = 2
    /\ lastCall.before[1].seen = 3
    /\ lastCall.before[1].progress = 100 /\ lastCall.before[1].finished
    /\ active = <<lastCall.before[2]>>

\* The place in the list recs of the record of the item.
C19_Place(recs, item) == CHOOSE i \in 1..Len(recs) : recs[i].item = item

\* C19: a completion event only sets the finished flag of its record and
\* changes neither the other records nor which records are in the active
\* list; cleanup_finished() removes exactly the records with finished true
\* and keeps the unfinished records in their order.
C19_FinishAndCleanup ==
    [][/\ lastCall'.op = "dl_finish" =>
            /\ Len(active') = Len(active)
            /\ \A k \in 1..Len(active) :
                    /\ active'[k].item = active[k].item
                    /\ active'[k].dest = active[k].dest
                    /\ active'[k].progress = active[k].progress
                    /\ active'[k].finished =
                          (active[k].finished \/ k = lastCall'.limit)
       /\ lastCall'.op = "dl_cleanup" =>
            /\ \A k \in 1..Len(active) :
                    active[k].finished <=>
                        active[k].item \notin {active'[j].item : j \in 1..Len(active')}
            /\ \A j \in 1..Len(active') :
                    active'[j] = active[C19_Place(active, active'[j].item)]
            /\ \A i, j \in 1..Len(active') :
                    i < j => C19_Place(active, active'[i].item)
                                < C19_Place(active, active'[j].item)]_vars

\* A cleanup of a list of three records that removed the finished record
\* in the middle and kept the two unfinished ones.
C19_Witness ==
    /\ lastCall.op = "dl_cleanup"
    /\ Len(lastCall.before) = 3
    /\ ~lastCall.before[1].finished
    /\ lastCall.before[2].finished
    /\ ~lastCall.before[3].finished
    /\ active = <<lastCall.before[1], lastCall.before[3]>>

\* C20: in every reachable state, whatever reports (rec, total) the engine
\* has sent (rec > total and total <= 0 included), the progress of every
\* download record is an integer in 0..100.
C20_ProgressInRange ==
    \A i \in 1..Len(active) : active[i].progress \in 0..100

\* C21: on a progress report (rec, total) the progress of the record becomes
\* floor(100 * rec / total) when total > 0 and 0 in every other case
\* (total = 0, total < 0, a report that is no pair of numbers), and nothing is
\* raised to the engine.
C21_FloorOrZero ==
    /\ lastCall.op = "dl_progress" =>
            LET rec   == lastCall.result[1]
                total == lastCall.result[2]
            IN  /\ ~raised
                /\ active[lastCall.limit].progress =
                      IF total > 0 THEN (100 * rec) \div total ELSE 0
    /\ lastCall.op = "dl_progress_failing" =>
            ~raised /\ active[lastCall.limit].progress = 0

----------------------------------------------------------------------------
(* SimpleRequestInterceptor                                                *)

\* Mutant of should_block: the url is not lower-cased.
should_block_as_written(list, url) ==
    \E i \in 1..Len(list) : Contains(url, list[i])

\* The loop of interceptRequest: some pattern of the list is in the
\* lower-cased url.
should_block(list, url) ==
    \E i \in 1..Len(list) : Contains(Lower(url), list[i])

\* interceptRequest(info) for a request of the url: info.block(True) is called
\* or not, which result records.
interceptRequest(url) ==
    /\ lastCall' = Call("intercept", "", url, "", "", 0, <<>>,
                        <<should_block(blocklist, url)>>)
    /\ raised' = FALSE
    /\ UNCHANGED <<burst, popLog, junk>>
    /\ UNCHANGED storeVars
    /\ UNCHANGED omniVars
    /\ UNCHANGED sessionVars
    /\ UNCHANGED downloadVars
    /\ UNCHANGED windowVars

----------------------------------------------------------------------------
(* SpecFilter: the request filter, constructed with the default blocklist  *)
(* or with a list of its caller, under any sequence of requests            *)

REQUEST_SCHEMES == {"https://", "HTTP://"}
REQUEST_HOSTS   == {"doubleclick.net", "DoubleClick.NET", "example.com",
                    "downloads.org", "facebook.com"}
REQUEST_PATHS   == {"", "/x", "/tr", "/Tracking"}
REQUEST_URLS ==
    {s \o h \o p : s \in REQUEST_SCHEMES, h \in REQUEST_HOSTS, p \in REQUEST_PATHS}

\* The lists a caller constructs the filter with (the empty one gives the
\* default).
BLOCKLISTS == {<<>>, <<"ads">>, <<"Ads", "example">>}

FilterInit ==
    /\ \E list \in BLOCKLISTS :
            ConstructedFull(AbsentFile, AbsentFile, AbsentFile, list)
    /\ clock = 0
    /\ OmniInit

FilterNext == \E url \in REQUEST_URLS : interceptRequest(url)

SpecFilter == FilterInit /\ [][FilterNext]_vars

\* C22: a request is blocked exactly when its lower-cased url contains a
\* pattern of the blocklist ("https://doubleclick.net/x" is blocked and
\* "https://example.com" is allowed under the default list); the decision
\* depends on the url and the list only, and the list is never modified.
C22_Filter ==
    /\ [](lastCall.op = "intercept" =>
            /\ lastCall.result[1] =
                  (\E i \in 1..Len(blocklist) :
                        Contains(Lower(lastCall.url), blocklist[i]))
            /\ (blocklist = DEFAULT_BLOCKLIST
                    /\ lastCall.url = "https://doubleclick.net/x")
                  => lastCall.result[1]
            /\ (blocklist = DEFAULT_BLOCKLIST
                    /\ lastCall.url = "https://example.com")
                  => ~lastCall.result[1])
    /\ [][blocklist' = blocklist]_vars

\* A request in capitals that the default list blocks.
C22_Witness ==
    /\ lastCall.op = "intercept"
    /\ blocklist = DEFAULT_BLOCKLIST
    /\ lastCall.url = "HTTP://DoubleClick.NET/x"
    /\ lastCall.result = <<TRUE>>

----------------------------------------------------------------------------
(* SchnopdihWindow: tabs, private cache directories, page loads            *)

MaxTabs   == 2     \* tabs open at a time
MaxDirs   == 2     \* cache directories on disk at a time
MaxClosed == 1     \* urls on the stack of closed tabs
CLOSED_TABS_MAX == 20    \* self.closed_tabs_stack[:20]

TMP_PREFIX == "schnopdih_tmp_cache_"

\* tempfile.mkdtemp(prefix=...): a directory that did not exist.
TempDir(n) == TMP_PREFIX \o ToString(n)
mkdtemp(dirs) ==
    TempDir(CHOOSE n \in 1..(MaxDirs + 1) :
                /\ TempDir(n) \notin dirs
                /\ \A m \in 1..(n - 1) : TempDir(m) \in dirs)

\* A call of a window method: the tab it is about (index, private), the
\* title and url it works with, the urls of the open tabs (before) and what
\* it reports (result).
WinCall(op, index, private, title, url, before, result) ==
    [op |-> op, title |-> title, url |-> url, new_url |-> "", q |-> "",
     limit |-> 0, before |-> before, prev_add |-> FALSE, prev_title |-> "",
     prev_url |-> "", before2 |-> <<>>, result |-> result,
     index |-> index, private |-> private]

TabUrls(ts) == [i \in 1..Len(ts) |-> ts[i].url]
RemoveAt(seq, i) == SubSeq(seq, 1, i - 1) \o SubSeq(seq, i + 1, Len(seq))

WindowFrame ==
    /\ raised' = FALSE
    /\ UNCHANGED <<burst, popLog, junk>>
    /\ UNCHANGED storeVars
    /\ UNCHANGED omniVars
    /\ UNCHANGED sessionVars
    /\ UNCHANGED downloadVars
    /\ UNCHANGED blocklist

\* add_tab(url, switch, private); mk_ok tells whether mkdtemp succeeds (its
\* exception is swallowed and the private profile then has no cache path).
add_tab(url, switch, private, mk_ok) ==
    LET made  == private /\ mk_ok
        cache == IF made THEN mkdtemp(cacheDirs) ELSE ""
    IN  /\ phase # "closed"
        /\ Len(tabs) < MaxTabs
        /\ made => Cardinality(cacheDirs) < MaxDirs
        /\ tabs' = Append(tabs, NewTab(url, private, cache))
        /\ cacheDirs' = IF made THEN cacheDirs \cup {cache} ELSE cacheDirs
        /\ current' = IF switch THEN Len(tabs) + 1 ELSE current
        /\ lastCall' = WinCall("add_tab", Len(tabs) + 1, private, "", url, <<>>, <<>>)
        /\ UNCHANGED <<closedTabs, phase>>
        /\ WindowFrame

\* QMainWindow.close(): the class has no closeEvent and nothing is connected
\* to the end of the application, so the window just goes.
window_close(op, index) ==
    /\ phase' = "closed"
    /\ lastCall' = WinCall(op, index, FALSE, "", "", TabUrls(tabs), <<>>)
    /\ UNCHANGED <<tabs, current, cacheDirs, closedTabs>>
    /\ WindowFrame

\* The user closes the window.
close == phase # "closed" /\ window_close("close", 0)

\* _close_tab(index), index counted from 0; rm_ok tells whether
\* shutil.rmtree(..., ignore_errors=True) gets the directory deleted.
close_tab(index, rm_ok) ==
    LET i   == index + 1
        tab == tabs[i]
    IN  /\ phase # "closed"
        /\ IF index < 0 \/ index >= Len(tabs)
           THEN /\ lastCall' = WinCall("close_tab_ignored", index, FALSE, "", "",
                                       <<>>, <<>>)
                /\ UNCHANGED <<tabs, current, cacheDirs, closedTabs, phase>>
                /\ WindowFrame
           ELSE IF Len(tabs) <= 1
           THEN window_close("close_last_tab", index)
           ELSE /\ Len(closedTabs) < MaxClosed
                /\ closedTabs' = IF tab.url # ""
                                  THEN Take(Prepend(tab.url, closedTabs), CLOSED_TABS_MAX)
                                  ELSE closedTabs
                /\ tabs' = RemoveAt(tabs, i)
                /\ current' = IF i < current \/ current = Len(tabs)
                               THEN current - 1 ELSE current
                /\ cacheDirs' = IF Contains(tab.cache, TMP_PREFIX) /\ rm_ok
                                 THEN cacheDirs \ {tab.cache} ELSE cacheDirs
                /\ lastCall' = WinCall("close_tab", index, tab.private, "", tab.url,
                                       <<>>, <<>>)
                /\ UNCHANGED phase
                /\ WindowFrame

\* _reopen_closed_tab()
reopen_closed_tab ==
    /\ phase # "closed"
    /\ closedTabs # <<>>
    /\ Len(tabs) < MaxTabs
    /\ closedTabs' = Tail(closedTabs)
    /\ tabs' = Append(tabs, NewTab(Head(closedTabs), FALSE, ""))
    /\ current' = Len(tabs) + 1
    /\ lastCall' = WinCall("reopen", Len(tabs) + 1, FALSE, "", Head(closedTabs),
                           <<>>, <<>>)
    /\ UNCHANGED <<cacheDirs, phase>>
    /\ WindowFrame

\* _restore_session(), which the timer of the constructor calls once: with
\* no tabs to restore nothing happens; else the tab widget is cleared (no
\* view is closed through _close_tab) and one tab per url is added.  An
\* exception of restore() is swallowed.
restore_session ==
    LET r == session_restore(sessionFile)
        urls == IF r.raised \/ ~r.list THEN <<>> ELSE r.tabs
    IN  /\ phase = "starting"
        /\ phase' = "running"
        /\ IF urls = <<>>
           THEN UNCHANGED <<tabs, current>>
           ELSE /\ tabs' = [i \in 1..Len(urls) |-> NewTab(urls[i], FALSE, "")]
                /\ current' = 1
        /\ lastCall' = WinCall("restore_session", 0, FALSE, "", "", TabUrls(tabs), urls)
        /\ UNCHANGED <<cacheDirs, closedTabs>>
        /\ WindowFrame

\* Mutants of load_recorded: private tabs are left out; failures are recorded.
load_recorded_unless_private(ok, tab) == ok /\ ~tab.private
load_recorded_always(ok, tab) == TRUE

\* if not ok: ... return
load_recorded(ok, tab) == ok

\* view.title() or view.url().toString()
title_or_url(title, url) == IF title = "" THEN url ELSE title

\* _on_load_finished(ok, view) for the view of tab i (counted from 1) whose
\* title is title; o is the outcome of the write of the history file.  What
\* history.add raises is swallowed.
on_load_finished(i, ok, title, o) ==
    LET tab   == tabs[i]
        t     == title_or_url(title, tab.url)
        after == history_add(history, t, tab.url, now_iso)
    IN  /\ phase # "closed"
        /\ i \in 1..Len(tabs)
        /\ IF ~load_recorded(ok, tab)
           THEN UNCHANGED <<history, historyFile, clock, faults>>
           ELSE IF insert_raises(junk.history)
           THEN /\ clock < MaxClock
                /\ clock' = clock + 1
                /\ UNCHANGED <<history, historyFile, faults>>
           ELSE /\ clock < MaxClock
                /\ clock' = clock + 1
                /\ history' = after
                /\ IF junk.history = NotJunk
                   THEN Save(historyFile, after, historyFile', o)
                   ELSE /\ o # "ok" => faults < MaxFaults
                        /\ faults' = IF o = "ok" THEN faults ELSE faults + 1
                        /\ historyFile' =
                              IF o = "ok"
                              THEN [JsonValue(junk.history) EXCEPT !.data = after]
                              ELSE save_json(historyFile, after, o)
        /\ lastCall' = WinCall("load_finished", i, tab.private, t, tab.url,
                               <<>>, <<ok>>)
        /\ raised' = FALSE
        /\ UNCHANGED <<bookmarks, bookmarksFile, burst, popLog, junk>>
        /\ UNCHANGED omniVars
        /\ UNCHANGED sessionVars
        /\ UNCHANGED downloadVars
        /\ UNCHANGED windowVars

\* _bookmark_current(): the current view's url and title go to
\* BookmarkManager.add.
bookmark_current(title, o) ==
    /\ phase # "closed"
    /\ BookmarkManager_add(title_or_url(title, tabs[current].url),
                           tabs[current].url, o)

----------------------------------------------------------------------------
(* SpecTabs: the window from its construction, with or without a session   *)
(* file, under tab events until it is closed                               *)

WindowSessionFiles ==
    {AbsentFile,
     JsonFile([tabs |-> <<"https://a", "https://b">>, saved |-> 0])}

WindowInit ==
    /\ \E sfile \in WindowSessionFiles :
            ConstructedWith(AbsentFile, AbsentFile, sfile)
    /\ clock = 0
    /\ OmniInit

TabsNext ==
    \/ \E url \in TAB_URLS, switch \in BOOLEAN, private \in BOOLEAN, mk_ok \in BOOLEAN :
            add_tab(url, switch, private, mk_ok)
    \/ \E index \in (-1)..MaxTabs, rm_ok \in BOOLEAN : close_tab(index, rm_ok)
    \/ reopen_closed_tab
    \/ restore_session
    \/ close

SpecTabs == WindowInit /\ [][TabsNext]_vars

\* C24: no private cache directory outlives its tab: every cache directory on
\* disk is the cache of a tab that is open in a window that is open, however
\* tabs got closed (a tab that is not the last, the last tab, the tabs
\* cleared when the session is restored).
C24_NoOrphanCache ==
    \A d \in cacheDirs :
        /\ phase # "closed"
        /\ \E i \in 1..Len(tabs) : tabs[i].cache = d

\* C26: once the window is closed, the session file holds a snapshot with the
\* urls of the tabs that were open then, so the restore of the next start
\* returns them.
C26_SavedOnShutdown ==
    phase = "closed" =>
        LET r == session_restore(sessionFile)
        IN  /\ ~r.raised
            /\ r.list
            /\ r.tabs = lastCall.before

----------------------------------------------------------------------------
(* SpecLoads: the window with normal and private tabs, under page loads    *)
(* that succeed or fail and bookmarking of the current page                *)

PAGE_TITLES == {"", "Apple"}
LOAD_URLS   == {"https://a"}

LoadsNext ==
    \/ \E url \in LOAD_URLS, private \in BOOLEAN : add_tab(url, TRUE, private, TRUE)
    \/ \E i \in 1..MaxTabs, ok \in BOOLEAN, title \in PAGE_TITLES :
            on_load_finished(i, ok, title, "ok")
    \/ \E title \in PAGE_TITLES : bookmark_current(title, "ok")

SpecLoads == WindowInit /\ [][LoadsNext]_vars

\* The step is a completed load of the tab's page, reported with ok.
LoadStep(ok) ==
    /\ lastCall'.op = "load_finished"
    /\ lastCall'.result = <<ok>>

\* C25: a load that succeeds in a private tab puts the entry into the History
\* Store that the same load in a normal tab would put there, and bookmarking
\* the page of a private tab adds to the Bookmark Store and its file what
\* add(title or url, url) adds.
C25_PrivateRecorded ==
    [][ /\ (LoadStep(TRUE) /\ lastCall'.private) =>
              /\ history' = history_add(history, lastCall'.title, lastCall'.url, clock)
              /\ historyFile' = JsonFile(history')
        /\ (lastCall'.op = "bm_add" /\ tabs[current].private) =>
              /\ lastCall'.url = tabs[current].url
              /\ bookmarks' = add_entries(bookmarks, lastCall'.title, lastCall'.url, clock)
              /\ bookmarks' # bookmarks => bookmarksFile' = JsonFile(bookmarks')
      ]_vars

\* A private tab's page is in both stores.
C25_Witness ==
    /\ Len(tabs) = 2 /\ tabs[2].private /\ current = 2
    /\ lastCall.op = "bm_add"
    /\ Len(bookmarks) = 1 /\ bookmarks[1].url = tabs[2].url
    /\ Len(history) = 1 /\ history[1].url = tabs[2].url
    /\ historyFile = JsonFile(history)
    /\ bookmarksFile = JsonFile(bookmarks)

\* C27: a load reported with success adds exactly one entry, in front, with
\* the page's url (also when the url is in the history already) and leaves
\* the other entries as they were; a load reported as failed changes nothing.
C27_OneEntryPerLoad ==
    [][ /\ LoadStep(TRUE) =>
              /\ Len(history') = Len(history) + 1
              /\ history'[1].url = lastCall'.url
              /\ history'[1].title = lastCall'.title
              /\ SubSeq(history', 2, Len(history')) = history
        /\ LoadStep(FALSE) => history' = history
      ]_vars

\* Two loads of the same page, then one of another tab, then a failed one.
C27_Witness ==
    /\ lastCall.op = "load_finished"
    /\ lastCall.result = <<FALSE>>
    /\ Len(history) = 3
    /\ history[1].url = "https://a"
    /\ history[2].url = DEFAULT_HOMEPAGE
    /\ history[3].url = DEFAULT_HOMEPAGE

----------------------------------------------------------------------------
(* SpecStores: both stores, constructed with no file on disk, under any    *)
(* sequence of Bookmark add, remove and update calls and History add calls *)

STORE_URLS == {"", "a.com", "http://b.org"}

StoresNext ==
    \/ \E t \in TITLES, u \in STORE_URLS, o \in SaveOutcomes :
            BookmarkManager_add(t, u, o)
    \/ \E u \in STORE_URLS, o \in SaveOutcomes :
            BookmarkManager_remove(u, o)
    \/ \E u \in STORE_URLS, t \in TITLES, o \in SaveOutcomes :
            BookmarkManager_update(u, t, "http://b.org", o)
    \/ \E t \in TITLES, o \in SaveOutcomes :
            clock < MaxClock /\ HistoryManager_add(t, "http://b.org", o)

SpecStores == Init /\ [][StoresNext]_vars

\* C31: while no write has failed, a store constructed from the file of a
\* store holds the entries the store holds in memory, in the same order.
C31_FileIsStore ==
    faults = 0 =>
        /\ store_junk(bookmarksFile) = NotJunk
        /\ store_list(bookmarksFile) = bookmarks
        /\ store_junk(historyFile) = NotJunk
        /\ store_list(historyFile) = history

\* Both files written, the bookmarks file last by an update.
C31_Witness ==
    /\ faults = 0
    /\ lastCall.op = "bm_update"
    /\ Len(bookmarks) = 1
    /\ bookmarks[1].url = "http://b.org"
    /\ bookmarksFile = JsonFile(bookmarks)
    /\ Len(history) = 1
    /\ historyFile = JsonFile(history)

\* C38: a progress or completion event for the record at place i leaves the
\* list as long as it was and every other record as it was; a progress event
\* changes no finished flag; and in no step does a record that is finished
\* and stays in the list become unfinished.
C38_OnlyThatRecord ==
    [][ /\ lastCall'.op \in {"dl_progress", "dl_progress_failing", "dl_finish"} =>
              /\ Len(active') = Len(active)
              /\ \A k \in 1..Len(active) :
                    /\ active'[k].item = active[k].item
                    /\ k # lastCall'.limit =>
                          /\ active'[k].progress = active[k].progress
                          /\ active'[k].finished = active[k].finished
                    /\ lastCall'.op # "dl_finish" =>
                          active'[k].finished = active[k].finished
        /\ \A k \in 1..Len(active), m \in 1..Len(active') :
              (active[k].item = active'[m].item /\ active[k].finished) =>
                  active'[m].finished
      ]_vars

\* A progress event for the second of three records, the first finished.
C38_Witness ==
    /\ lastCall.op = "dl_progress"
    /\ lastCall.limit = 2
    /\ lastCall.result = <<100, 100>>
    /\ Len(active) = 3
    /\ active[1].finished /\ active[1].progress = 50
    /\ active[2].progress = 100 /\ ~active[2].finished
    /\ active[3].progress = 0 /\ ~active[3].finished

----------------------------------------------------------------------------
(* SpecRequests: the engine's download requests, answered in the file      *)
(* dialog with a path or with none, among completions and cleanup passes   *)

\* Mutant of request_outcome: a record is added also when no path was chosen.
request_outcome_always_adds(path) == "add"

\* if not path: item.cancel(); return -- else self.downloads.add(item, path)
request_outcome(path) == IF path = "" THEN "cancel" ELSE "add"

\* _on_download_requested(item); path is what the file dialog returns ("" when
\* it is dismissed), bound whether add could connect the item's signals.  The
\* call is recorded with the path in url and what was done with the item in
\* result.
on_download_requested(item, path, bound) ==
    /\ active' = IF request_outcome(path) = "cancel" THEN active
                  ELSE Append(active, DownloadRecord(item, path, bound))
    /\ lastCall' = Call("dl_request", item, path, "", "", 0, <<>>,
                        <<request_outcome(path)>>)
    /\ raised' = FALSE
    /\ UNCHANGED <<burst, popLog, junk>>
    /\ UNCHANGED storeVars
    /\ UNCHANGED omniVars
    /\ UNCHANGED sessionVars
    /\ UNCHANGED windowVars

DIALOG_PATHS == {"", "/d/f.zip", "/d/g.zip"}

RequestsNext ==
    \/ \E item \in ITEMS \ ActiveItems, path \in DIALOG_PATHS, bound \in BOOLEAN :
            on_download_requested(item, path, bound)
    \/ \E i \in 1..Len(active) : DownloadManager_finish(i)
    \/ DownloadManager_cleanup_finished

SpecRequests == DownloadsInit /\ [][RequestsNext]_vars

\* C33: a download request either gets no path, and then the item is
\* cancelled and the active list stays as it is, or gets a path, and then the
\* list is the list before with one record more at its end, for that item and
\* path, with progress 0 and finished false.  Never both, never neither.
C33_CancelOrOneRecord ==
    [][ lastCall'.op = "dl_request" =>
          IF lastCall'.url = ""
          THEN /\ lastCall'.result = <<"cancel">>
               /\ active' = active
          ELSE /\ lastCall'.result = <<"add">>
               /\ Len(active') = Len(active) + 1
               /\ SubSeq(active', 1, Len(active)) = active
               /\ active'[Len(active')].item = lastCall'.title
               /\ active'[Len(active')].dest = lastCall'.url
               /\ active'[Len(active')].progress = 0
               /\ active'[Len(active')].finished = FALSE
      ]_vars

\* A request that got a path, the list holding a finished record before it.
C33_Witness ==
    /\ lastCall.op = "dl_request"
    /\ lastCall.result = <<"add">>
    /\ Len(active) = 2
    /\ active[1].finished
    /\ active[2].dest = "/d/g.zip"
    /\ active[2].progress = 0
    /\ ~active[2].finished

----------------------------------------------------------------------------
(* SpecDownloadsApp: the Download Tracker as the running application drives *)
(* it: requests, the engine's events and the downloads view.  Nothing in    *)
(* the application calls cleanup_finished.                                  *)

\* refresh() of _show_downloads: one label per record of the active list,
\* made of its destination, its progress and its finished flag.
show_downloads_labels(recs) ==
    [i \in 1..Len(recs) |-> <<recs[i].dest, recs[i].progress, recs[i].finished>>]

\* _show_downloads() and each timeout of its refresh timer: the list is read.
show_downloads ==
    /\ UNCHANGED active
    /\ DownloadFrame("dl_show", 0, show_downloads_labels(active))

APP_REPORTS == {<<50, 100>>, <<100, 100>>}

DownloadsAppNext ==
    \/ \E item \in ITEMS \ ActiveItems, path \in DIALOG_PATHS, bound \in BOOLEAN :
            on_download_requested(item, path, bound)
    \/ \E i \in 1..Len(active), r \in APP_REPORTS :
            DownloadManager_progress(i, r[1], r[2])
    \/ \E i \in 1..Len(active) : DownloadManager_finish(i)
    \/ show_downloads

\* The event loop delivers every pending event and the user keeps looking at
\* the downloads view.
SpecDownloadsApp ==
    /\ DownloadsInit
    /\ [][DownloadsAppNext]_vars
    /\ WF_vars(DownloadsAppNext)
    /\ WF_vars(show_downloads)

ItemFinished(item) ==
    \E i \in 1..Len(active) : active[i].item = item /\ active[i].finished

\* C34: in the running application every record whose finished flag is true
\* is eventually out of the active list.
C34_FinishedEventuallyRemoved ==
    \A item \in ITEMS : ItemFinished(item) ~> (item \notin ActiveItems)

----------------------------------------------------------------------------
(* SpecOmniboxGo: the address bar under edits, timer timeouts and          *)
(* submissions with the Return key                                         *)

\* text.replace(" ", "+")
RECURSIVE PlusForBlank(_)
PlusForBlank(text) ==
    IF text = "" THEN ""
    ELSE (IF SubSeq(text, 1, 1) = " " THEN "+" ELSE SubSeq(text, 1, 1))
            \o PlusForBlank(SubSeq(text, 2, Len(text)))

\* _parse_omnibox(text): a text with a scheme is a url; a host-like text gets
\* "http://" in front unless urlparse finds a netloc in it (it begins with
\* "//"); any other text is searched for.
parse_omnibox(text) ==
    IF urlparse_scheme(text) # "" THEN text
    ELSE IF Contains(text, ".") /\ ~Contains(text, " ")
    THEN IF Len(text) >= 2 /\ SubSeq(text, 1, 2) = "//" THEN text
         ELSE "http://" \o text
    ELSE "https://www.google.com/search?q=" \o PlusForBlank(text)

\* Mutant of go_timer: the submission stops the debounce timer.
go_timer_stopped(pending) == 0

\* The debounce timer after a submission: neither _urlbar_keypress_override
\* nor _on_omnibox_go touches omnibox_timer.
go_timer(pending) == pending

\* Return in the address bar that shows text (_urlbar_keypress_override, then
\* _on_omnibox_go): with Ctrl the text is wrapped in "http://www." and ".com";
\* the popup is hidden; a text that is not blank is parsed and loaded in the
\* current view.  The submission ends the burst of edits: burst and popLog
\* start again.
omnibox_go(text, ctrl) ==
    LET shown == IF ctrl THEN "http://www." \o text \o ".com" ELSE text
        t     == Strip(shown)
        url   == IF t = "" THEN tabs[current].url ELSE parse_omnibox(t)
    IN  /\ phase # "closed"
        /\ popup' = [popup EXCEPT !.visible = FALSE]
        /\ timerPending' = go_timer(timerPending)
        /\ tabs' = [tabs EXCEPT ![current].url = url]
        /\ burst' = <<>>
        /\ popLog' = <<>>
        /\ lastCall' = Call("omnibox_go", "", url, "", shown, 0, <<>>, <<>>)
        /\ UNCHANGED pendingText
        /\ UNCHANGED <<blocklist, current, cacheDirs, closedTabs, phase>>
        /\ UNCHANGED storeVars
        /\ UNCHANGED sessionVars
        /\ UNCHANGED downloadVars
        /\ UNCHANGED errVars

GO_TEXTS == {"a.com", "my app"}

OmniboxGoNext ==
    \/ \E text \in EDIT_TEXTS : on_omnibox_edit(text)
    \/ omnibox_timer_timeout
    \/ \E text \in GO_TEXTS, ctrl \in BOOLEAN : omnibox_go(text, ctrl)

SpecOmniboxGo == OmniboxInit /\ [][OmniboxGoNext]_vars

\* C35: from a submission until the next edit no population has run and the
\* popup is hidden; in particular a timer that an edit armed before the
\* submission has not fired.
C35_QuietAfterGo ==
    (lastCall.op = "omnibox_go" /\ burst = <<>>) =>
        /\ popLog = <<>>
        /\ ~popup.visible

----------------------------------------------------------------------------
(* SpecToggle: the bookmark star of the current page, and Bookmark add     *)
(* calls with any url                                                      *)

\* _toggle_bookmark_current(): nothing for a view without url; the page's
\* bookmark is removed when exists(url), added with the view's title (or the
\* url) otherwise.
toggle_bookmark_current(title, o) ==
    LET url   == tabs[current].url
        after == IF exists(bookmarks, url)
                 THEN remove_entries(bookmarks, url)
                 ELSE add_entries(bookmarks, title_or_url(title, url), url, now_iso)
        stamped == ~exists(bookmarks, url) /\ after # bookmarks
    IN  /\ phase # "closed"
        /\ IF url = ""
           THEN /\ raised' = FALSE
                /\ UNCHANGED <<bookmarks, clock, bookmarksFile, faults>>
           ELSE IF iterate_raises(junk.bookmarks)
           THEN /\ raised' = TRUE
                /\ UNCHANGED <<bookmarks, clock, bookmarksFile, faults>>
           ELSE /\ raised' = FALSE
                /\ stamped => clock < MaxClock
                /\ bookmarks' = after
                /\ clock' = IF stamped THEN clock + 1 ELSE clock
                /\ IF exists(bookmarks, url) \/ stamped
                   THEN Save(bookmarksFile, after, bookmarksFile', o)
                   ELSE UNCHANGED <<bookmarksFile, faults>>
        /\ lastCall' = Call("bm_toggle", title, url, "", "", 0, bookmarks, <<>>)
        /\ UNCHANGED <<history, historyFile, burst, popLog, junk>>
        /\ UNCHANGED omniVars
        /\ UNCHANGED sessionVars
        /\ UNCHANGED downloadVars
        /\ UNCHANGED windowVars

ToggleNext ==
    \/ \E url \in TAB_URLS, switch \in BOOLEAN : add_tab(url, switch, FALSE, TRUE)
    \/ \E title \in PAGE_TITLES : toggle_bookmark_current(title, "ok")
    \/ \E t \in TITLES, u \in URLS : BookmarkManager_add(t, u, "ok")

SpecToggle == WindowInit /\ [][ToggleNext]_vars

\* C36 as stated: after add(title, url) with a non-empty url, exists(url) is
\* true; and after the star was toggled on a page, exists(url of the page)
\* is the opposite of what it was before.
C36_Original ==
    /\ (lastCall.op = "bm_add" /\ lastCall.url # "") =>
            exists(bookmarks, lastCall.url)
    /\ lastCall.op = "bm_toggle" =>
            exists(bookmarks, lastCall.url) # exists(lastCall.before, lastCall.url)

\* C36, amended: after add(title, url) with a non-empty url, exists is true
\* of the url that add stores ("http://" + url for a scheme-less host-like
\* url, else url), hence of url itself whenever url is its own stored form;
\* for any other url, exists(url) is what it was before the add.  After the
\* star was toggled on a page whose url is its own stored form, exists(url
\* of the page) is the opposite of what it was before.
C36_AddThenExists ==
    /\ (lastCall.op = "bm_add" /\ lastCall.url # "") =>
            /\ exists(bookmarks, add_url(lastCall.url))
            /\ add_url(lastCall.url) # lastCall.url =>
                  exists(bookmarks, lastCall.url) = exists(lastCall.before, lastCall.url)
    /\ (lastCall.op = "bm_toggle" /\ lastCall.url # ""
            /\ add_url(lastCall.url) = lastCall.url) =>
            exists(bookmarks, lastCall.url) # exists(lastCall.before, lastCall.url)

\* add("a.com") has stored "http://a.com" behind another entry's place.
C36_Witness ==
    /\ lastCall.op = "bm_add"
    /\ lastCall.url = "a.com"
    /\ Len(bookmarks) = 2
    /\ exists(bookmarks, "http://a.com")
    /\ ~exists(bookmarks, "a.com")

----------------------------------------------------------------------------
(* SpecOmniboxLive: SpecOmnibox with the debounce timer's fairness: a      *)
(* single-shot timer that is running fires                                 *)

\* The timer's part of omnibox_timer_timeout: a running single-shot timer
\* times out.
timer_fires == timerPending > 0 /\ timerPending' = timerPending - 1

SpecOmniboxLive ==
    /\ OmniboxInit
    /\ [][OmniboxNext]_vars
    /\ WF_timerPending(timer_fires)

\* One population has run since the burst's last edit, for the text t, and
\* no timer is running.
PopulatedIdle(t) ==
    /\ timerPending = 0
    /\ burst # <<>>
    /\ Len(popLog) = 1
    /\ popLog[1].text = t

\* No timer is running, so no population can run before the next edit, and
\* since the last edit exactly one has run.
IdleAfterPopulation ==
    (burst # <<>> /\ timerPending = 0) => Len(popLog) = 1

\* C37 as stated: while a timer is running, eventually none is and one
\* population has run with the text of the edit that was the last; then the
\* engine is idle until another edit.
C37_Original ==
    /\ (timerPending > 0) ~> PopulatedIdle(burst[Len(burst)])
    /\ []IdleAfterPopulation

\* C37, amended: ... a population eventually runs with that edit's text
\* stripped of leading and trailing white space ...
C37_EventuallyPopulated ==
    /\ (timerPending > 0) ~> PopulatedIdle(Strip(burst[Len(burst)]))
    /\ []IdleAfterPopulation

\* The burst "ap", "app", " app " has ended with its one population.
C37_Witness ==
    /\ burst = <<"ap", "app", " app ">>
    /\ PopulatedIdle("app")
    /\ popLog[1].popup = popup

====
